---- MODULE Spec2Model ----
(***************************************************************************)
(* A model of the cloudflare/mcp worker: the credential dispatcher at the  *)
(* fetch entrypoint (src/src/index.ts, src/src/auth/api-token-mode.ts) and *)
(* the OAuth consent flow (src/src/auth/oauth-handler.ts,                  *)
(* src/src/auth/workers-oauth-utils.ts).                                   *)
(*                                                                         *)
(* Strings whose characters matter are sequences of one-character strings. *)
(* An optional value (a header that may be absent, null, undefined) is a   *)
(* sequence of length 0 or 1.                                              *)
(***************************************************************************)
EXTENDS Integers, Sequences, FiniteSets, TLC

VARIABLES
    request,      \* entrypoint: the inbound request's credential headers
    upstream,     \* entrypoint: what the upstream /user and /accounts calls answer
    response,     \* entrypoint: the response fetch returned
    epc,          \* entrypoint: "start" before fetch ran, "done" after
    bapArgs,      \* buildAuthProps: the arguments of one call
    bapResult,    \* buildAuthProps: what the call returned or threw
    kv,           \* OAuth: env.OAUTH_KV, the entry stored under each state token
    nextToken,    \* OAuth: how many state tokens createOAuthState has handed out
    jar,          \* OAuth: the cookies the browser holds for the worker
    inflight,     \* OAuth: Set-Cookie headers of responses the browser has not stored yet
    last,         \* OAuth: the last /authorize request handled and its response
    cb,           \* OAuth: the callback requests being handled, one record each
    call,         \* tools: the function being called and its arguments
    outcome       \* tools: what the call has produced so far

entryVars == <<request, upstream, response, epc>>
bapVars == <<bapArgs, bapResult>>
oauthVars == <<kv, nextToken, jar, inflight, last, cb>>
callVars == <<call, outcome>>
otherVars == <<request, upstream, response, epc, bapArgs, bapResult, call, outcome>>
vars == <<request, upstream, response, epc, bapArgs, bapResult,
          kv, nextToken, jar, inflight, last, cb, call, outcome>>

----------------------------------------------------------------------------
(* Bounds *)

MaxTokLen == 4
MaxAccounts == 2

----------------------------------------------------------------------------
(* Optional values and strings *)

None == <<>>
Some(v) == <<v>>

\* JavaScript truthiness of a string | null | undefined
Truthy(opt) == opt # None /\ opt[1] # <<>>

startsWith(s, p) == Len(s) >= Len(p) /\ SubSeq(s, 1, Len(p)) = p

\* String.prototype.slice(n): the text after the first n characters
slice(s, n) == SubSeq(s, n + 1, Len(s))

\* String.prototype.split(sep): the segments between the separators
RECURSIVE splitFrom(_, _, _)
splitFrom(s, sep, cur) ==
    IF s = <<>> THEN <<cur>>
    ELSE IF Head(s) = sep THEN <<cur>> \o splitFrom(Tail(s), sep, <<>>)
    ELSE splitFrom(Tail(s), sep, Append(cur, Head(s)))

split(s, sep) == splitFrom(s, sep, <<>>)

BearerPrefix == <<"B", "e", "a", "r", "e", "r", " ">>

----------------------------------------------------------------------------
(* Input domains *)

\* sequences over S of length at most n
SeqsUpTo(S, n) == UNION {[1..k -> S] : k \in 0..n}

\* sequences over S without repetition
DistinctSeqs(S) == {q \in SeqsUpTo(S, Cardinality(S)) :
                       \A i, j \in 1..Len(q) : i # j => q[i] # q[j]}

TokenTexts == SeqsUpTo({"a", ":"}, MaxTokLen)

\* The Headers class strips leading and trailing whitespace from a value, so
\* "Bearer " followed by nothing reaches the worker as "Bearer".
AuthorizationValues ==
    {BearerPrefix \o t : t \in TokenTexts \ {<<>>}}
    \cup {<<"B", "a", "s", "i", "c", " ">> \o t : t \in {<<"a">>, <<"a", ":", "a">>}}
    \cup {<<"b", "e", "a", "r", "e", "r", " ">> \o t : t \in {<<"a">>, <<"a", ":", "a", ":", "a">>}}
    \cup {<<"B", "e", "a", "r", "e", "r">>, <<"B", "e", "a", "r", "e", "r", ":", "a">>}

HeaderTexts == {<<>>, <<"x">>}

Requests ==
    [authorization : {None} \cup {Some(v) : v \in AuthorizationValues},
     xAuthEmail : {None} \cup {Some(v) : v \in HeaderTexts},
     xAuthKey : {None} \cup {Some(v) : v \in HeaderTexts}]

Users == {[id |-> "u1", email |-> "e1"], [id |-> "u2", email |-> "e2"]}
Account(i) == [id |-> i, name |-> i]
AccountLists == DistinctSeqs({Account(i) : i \in 1..MaxAccounts})

\* What one upstream call can come back with: the fetch rejects, the body is
\* not JSON, the envelope says success:false, success:true without a result,
\* success:true with a result of the wrong shape, success:true with a result.
UserAnswers ==
    {[kind |-> k, result |-> None] :
        k \in {"network_error", "non_json", "success_false", "no_result", "bad_shape"}}
    \cup {[kind |-> "ok", result |-> Some(u)] : u \in Users}

AccountsAnswers ==
    {[kind |-> k, result |-> <<>>] :
        k \in {"network_error", "non_json", "success_false", "no_result", "bad_shape"}}
    \cup {[kind |-> "ok", result |-> l] : l \in AccountLists}

Upstreams == [user : UserAnswers, accounts : AccountsAnswers]

----------------------------------------------------------------------------
(* src/src/auth/oauth-handler.ts: getUserAndAccounts *)

Threw(msg) == [threw |-> TRUE, message |-> msg, user |-> None, accounts |-> <<>>]
Returned(user, accounts) ==
    [threw |-> FALSE, message |-> "", user |-> user, accounts |-> accounts]

\* getUserAndAccounts that gives up when no account is listed
getUserAndAccounts_NeedsAccounts(up) ==
    IF up.accounts.kind # "ok" \/ Len(up.accounts.result) = 0
    THEN Threw("Failed to fetch user or accounts")
    ELSE Returned(IF up.user.kind = "ok" THEN up.user.result ELSE None,
                  up.accounts.result)

getUserAndAccounts(up) ==
    IF up.user.kind = "network_error" \/ up.accounts.kind = "network_error"
    THEN Threw("fetch failed")
    ELSE IF up.user.kind = "non_json" \/ up.accounts.kind = "non_json"
    THEN Threw("Unexpected token")
    ELSE IF up.accounts.kind = "bad_shape"
    THEN Threw("ZodError")
    ELSE LET accounts == IF up.accounts.kind = "ok" THEN up.accounts.result ELSE <<>>
         IN  IF up.user.kind = "bad_shape" THEN Threw("ZodError")
             ELSE IF up.user.kind = "ok" THEN Returned(up.user.result, accounts)
             ELSE IF Len(accounts) > 0 THEN Returned(None, accounts)
             ELSE Threw("Failed to fetch user or accounts")

----------------------------------------------------------------------------
(* src/src/auth/api-token-mode.ts *)

NoProps == [type |-> "none"]

BuildThrew == [type |-> "threw",
               message |-> "Cannot build auth props: no user or account information"]

\* buildAuthProps taking the last account instead of the first
buildAuthProps_LastAccount(token, user, accounts) ==
    IF user # None
    THEN [type |-> "user_token", accessToken |-> token, user |-> user[1],
          accounts |-> IF accounts # None THEN accounts[1] ELSE <<>>]
    ELSE IF accounts = None \/ Len(accounts[1]) = 0
    THEN BuildThrew
    ELSE [type |-> "account_token", accessToken |-> token,
          account |-> accounts[1][Len(accounts[1])]]

\* user and accounts are optional: None stands for null or undefined
buildAuthProps(token, user, accounts) ==
    IF user # None
    THEN [type |-> "user_token", accessToken |-> token, user |-> user[1],
          accounts |-> IF accounts # None THEN accounts[1] ELSE <<>>]
    ELSE IF accounts = None \/ Len(accounts[1]) = 0
    THEN BuildThrew
    ELSE [type |-> "account_token", accessToken |-> token, account |-> accounts[1][1]]

isGlobalApiKey(req) == Truthy(req.xAuthEmail) /\ Truthy(req.xAuthKey)

\* isDirectApiToken counting separators instead of segments
isDirectApiToken_CountsColons(req) ==
    IF req.authorization = None \/ ~startsWith(req.authorization[1], BearerPrefix)
    THEN FALSE
    ELSE Len(split(slice(req.authorization[1], 7), ":")) - 1 # 3

isDirectApiToken(req) ==
    IF req.authorization = None \/ ~startsWith(req.authorization[1], BearerPrefix)
    THEN FALSE
    ELSE Len(split(slice(req.authorization[1], 7), ":")) # 3

extractBearerToken(req) ==
    IF req.authorization = None \/ ~startsWith(req.authorization[1], BearerPrefix)
    THEN None
    ELSE Some(slice(req.authorization[1], 7))

\* The responses of the entrypoint.  path names the branch that produced it.
Null == [kind |-> "null"]
HttpError(path, status, error) ==
    [kind |-> "http", path |-> path, status |-> status, error |-> error,
     token |-> <<>>, accountId |-> None, props |-> NoProps]

\* src/src/index.ts: createMcpResponse, as called from the credential handlers
createMcpResponse(path, token, accountId, props) ==
    [kind |-> "mcp", path |-> path, status |-> 200, error |-> "",
     token |-> token, accountId |-> accountId, props |-> props]

handleGlobalApiKeyRequest(req, up) ==
    IF ~isGlobalApiKey(req) THEN Null
    ELSE LET r == getUserAndAccounts(up)
         IN  IF r.threw THEN HttpError("global_api_key", 401, r.message)
             ELSE IF r.user = None
             THEN HttpError("global_api_key", 401, "Failed to verify Global API Key")
             ELSE createMcpResponse("global_api_key", <<>>, None,
                    [type |-> "global_api_key", email |-> req.xAuthEmail[1],
                     apiKey |-> req.xAuthKey[1], user |-> r.user[1],
                     accounts |-> r.accounts])

\* handleApiTokenRequest without the ambiguous-account check
handleApiTokenRequest_NoAmbiguityCheck(req, up) ==
    IF ~isDirectApiToken(req) THEN Null
    ELSE LET token == extractBearerToken(req)
         IN  IF ~Truthy(token)
             THEN HttpError("direct_token", 401, "Authorization header required")
             ELSE LET r == getUserAndAccounts(up)
                  IN  IF r.threw THEN HttpError("direct_token", 401, r.message)
                      ELSE IF r.user = None
                      THEN IF Len(r.accounts) = 0
                           THEN HttpError("direct_token", 401, "Invalid token")
                           ELSE IF Len(r.accounts) > MaxAccounts + 1
                           THEN HttpError("direct_token", 400,
                                  "Token has access to multiple accounts - use account_id parameter")
                           ELSE LET props == buildAuthProps(token[1], None, Some(r.accounts))
                                IN  IF props.type = "threw"
                                    THEN HttpError("direct_token", 401, props.message)
                                    ELSE createMcpResponse("direct_token", token[1],
                                           Some(r.accounts[1].id), props)
                      ELSE createMcpResponse("direct_token", token[1], None,
                             buildAuthProps(token[1], r.user, Some(r.accounts)))

handleApiTokenRequest(req, up) ==
    IF ~isDirectApiToken(req) THEN Null
    ELSE LET token == extractBearerToken(req)
         IN  IF ~Truthy(token)
             THEN HttpError("direct_token", 401, "Authorization header required")
             ELSE LET r == getUserAndAccounts(up)
                  IN  IF r.threw THEN HttpError("direct_token", 401, r.message)
                      ELSE IF r.user = None
                      THEN IF Len(r.accounts) = 0
                           THEN HttpError("direct_token", 401, "Invalid token")
                           ELSE IF Len(r.accounts) > 1
                           THEN HttpError("direct_token", 400,
                                  "Token has access to multiple accounts - use account_id parameter")
                           ELSE LET props == buildAuthProps(token[1], None, Some(r.accounts))
                                IN  IF props.type = "threw"
                                    THEN HttpError("direct_token", 401, props.message)
                                    ELSE createMcpResponse("direct_token", token[1],
                                           Some(r.accounts[1].id), props)
                      ELSE createMcpResponse("direct_token", token[1], None,
                             buildAuthProps(token[1], r.user, Some(r.accounts)))

----------------------------------------------------------------------------
(* src/src/index.ts: the fetch entrypoint *)

\* The request is handed to the OAuth provider (workers-oauth-provider)
OAuthProviderFetch(req) ==
    [kind |-> "oauth", path |-> "oauth", status |-> 0, error |-> "",
     token |-> <<>>, accountId |-> None, props |-> NoProps]

NoResponse == [kind |-> "none"]

fetch ==
    /\ epc = "start"
    /\ LET r == IF isDirectApiToken(request)
                THEN handleApiTokenRequest(request, upstream)
                ELSE Null
       IN  response' = IF r # Null THEN r ELSE OAuthProviderFetch(request)
    /\ epc' = "done"
    /\ UNCHANGED <<request, upstream, bapVars, oauthVars, callVars>>

----------------------------------------------------------------------------
(* One call of buildAuthProps on arbitrary arguments *)

BapIdle == [token |-> <<>>, user |-> None, accounts |-> None]

BapArgSets ==
    [token : {<<"a">>, <<"a", "a">>, <<"a", ":", "a">>},
     user : {None} \cup {Some(u) : u \in Users},
     accounts : {None} \cup {Some(l) : l \in AccountLists}]

CallBuildAuthProps ==
    /\ bapResult = NoProps
    /\ bapResult' = buildAuthProps(bapArgs.token, bapArgs.user, bapArgs.accounts)
    /\ UNCHANGED <<bapArgs, entryVars, oauthVars, callVars>>

----------------------------------------------------------------------------
(* src/src/auth/scopes.ts *)

MAX_SCOPES == 76

REQUIRED_SCOPES == <<"user:read", "offline_access", "account:read">>

\* SCOPE_TEMPLATES[DEFAULT_TEMPLATE].scopes, the read-only template
DefaultTemplateScopes ==
    REQUIRED_SCOPES \o
    <<"workers:read", "workers_builds:read", "workers_observability:read",
      "pages:read", "ai:read", "access:read", "dns_records:read",
      "dns_settings:read", "dns_analytics:read", "zone:read", "logpush:read">>

----------------------------------------------------------------------------
(* src/src/auth/workers-oauth-utils.ts: signed cookies, CSRF, stored state *)

\* Bounds of the consent flow
MaxStates == 2       \* correlation tokens createOAuthState hands out
MaxInflight == 2     \* responses on their way to the browser
NumCallbacks == 2    \* callback requests the worker handles, possibly at once

Tokens == 1..MaxStates
Procs == 1..NumCallbacks

\* env.MCP_COOKIE_ENCRYPTION_KEY, and a key the server does not hold
CookieSecret == "server_secret"
AttackerKey == "attacker_key"

\* A client id as it appears in JSON: "#5" stands for a value that is truthy
\* but not a string (the number 5), "" for the empty string.
IsString(id) == id # "#5"
TruthyId(id) == id # ""

\* JSON.stringify of the approved-clients array, and the other texts a cookie
\* payload can hold
JsonArray(items) == [kind |-> "array", items |-> items]
NotJson == [kind |-> "not_json", items |-> <<>>]
JsonObject == [kind |-> "object", items |-> <<>>]

\* HMAC-SHA256, symbolically: a signature names the key and the signed text
signData(key, data) == [key |-> key, data |-> data]

\* verifySignature accepting every signature
verifySignature_AcceptAll(key, signatureHex, data) == TRUE

verifySignature(key, signatureHex, data) == signatureHex = signData(key, data)

\* The approved-clients cookie value: signatureHex.base64Payload, or a value
\* that does not split on "." into two parts, or one whose second part is
\* not base64
SignedCookie(sig, payload) == [form |-> "signed", sig |-> sig, payload |-> payload]
MalformedCookie == [form |-> "malformed", sig |-> signData(AttackerKey, NotJson),
                    payload |-> NotJson]
BadBase64Cookie == [form |-> "bad_base64", sig |-> signData(AttackerKey, NotJson),
                    payload |-> NotJson]

ClientsNull == [threw |-> FALSE, clients |-> None]

getApprovedClientsFromCookie(cookie, secret) ==
    IF cookie = None THEN ClientsNull
    ELSE IF cookie[1].form = "malformed" THEN ClientsNull
    ELSE IF cookie[1].form = "bad_base64" THEN [threw |-> TRUE, clients |-> None]
    ELSE IF ~verifySignature(secret, cookie[1].sig, cookie[1].payload) THEN ClientsNull
    ELSE IF cookie[1].payload.kind # "array" THEN ClientsNull
    ELSE IF \E i \in 1..Len(cookie[1].payload.items) :
                ~IsString(cookie[1].payload.items[i])
    THEN ClientsNull
    ELSE [threw |-> FALSE, clients |-> Some(cookie[1].payload.items)]

\* Array.prototype.includes
includes(list, x) == \E i \in 1..Len(list) : list[i] = x

\* "threw" when reading the cookie throws, else whether the client is approved
clientIdAlreadyApproved(cookie, clientId, cookieSecret) ==
    IF ~TruthyId(clientId) THEN "no"
    ELSE LET r == getApprovedClientsFromCookie(cookie, cookieSecret)
         IN  IF r.threw THEN "threw"
             ELSE IF r.clients = None THEN "no"
             ELSE IF includes(r.clients[1], clientId) THEN "yes" ELSE "no"

\* Array.from(new Set(list)): the first occurrence of every element, in order
RECURSIVE ArrayFromSet(_)
ArrayFromSet(list) ==
    IF list = <<>> THEN <<>>
    ELSE LET init == ArrayFromSet(SubSeq(list, 1, Len(list) - 1))
             x == list[Len(list)]
         IN  IF includes(init, x) THEN init ELSE Append(init, x)

\* updatedApprovedClients forgetting the earlier approvals
updatedApprovedClients_Overwrite(existing, clientId) == <<clientId>>

updatedApprovedClients(existing, clientId) ==
    ArrayFromSet(existing \o <<clientId>>)

\* CSRF: the form field must be a non-empty string equal to the cookie
CsrfPassed == "ok"

\* the CSRF check comparing nothing, only requiring the form field
csrfCheck_FormOnly(tokenFromForm, tokenFromCookie) ==
    IF ~Truthy(tokenFromForm) THEN "Missing CSRF token" ELSE CsrfPassed

csrfCheck(tokenFromForm, tokenFromCookie) ==
    IF ~Truthy(tokenFromForm) THEN "Missing CSRF token"
    ELSE IF ~Truthy(tokenFromCookie) \/ tokenFromForm # tokenFromCookie
    THEN "CSRF token mismatch"
    ELSE CsrfPassed

\* The state blob of the consent form: btoa(JSON.stringify({ oauthReqInfo }))
NoReqInfo == [clientId |-> "", scope |-> <<>>, state |-> "", responseType |-> "",
              redirectUri |-> ""]

\* slice(0, n) that keeps the whole list
sliceTo_NoCap(list, n) == list

\* Array.prototype.slice(0, n)
sliceTo(list, n) == SubSeq(list, 1, IF Len(list) < n THEN Len(list) ELSE n)

ParseThrew(msg) ==
    [threw |-> TRUE, message |-> msg, oauthReqInfo |-> NoReqInfo,
     setCookie |-> None, selectedScopes |-> None, selectedTemplate |-> None]

parseRedirectApproval(req, cookieSecret) ==
    LET csrf == csrfCheck(req.csrfForm, req.csrfCookie)
    IN  IF csrf # CsrfPassed THEN ParseThrew(csrf)
        ELSE IF req.state.kind = "missing" THEN ParseThrew("Missing state")
        ELSE IF req.state.kind = "undecodable" THEN ParseThrew("SyntaxError")
        ELSE IF req.state.kind = "no_info" \/ ~TruthyId(req.state.oauthReqInfo.clientId)
        THEN ParseThrew("Invalid state data")
        ELSE LET existing == getApprovedClientsFromCookie(req.approved, cookieSecret)
             IN  IF existing.threw THEN ParseThrew("InvalidCharacterError")
                 ELSE LET existingApprovedClients ==
                              IF existing.clients = None THEN <<>> ELSE existing.clients[1]
                          payload == JsonArray(updatedApprovedClients(
                                         existingApprovedClients,
                                         req.state.oauthReqInfo.clientId))
                      IN  [threw |-> FALSE, message |-> "",
                           oauthReqInfo |-> req.state.oauthReqInfo,
                           setCookie |-> Some(SignedCookie(
                                            signData(cookieSecret, payload), payload)),
                           selectedScopes |-> IF Len(req.scopes) > 0
                                              THEN Some(req.scopes) ELSE None,
                           selectedTemplate |-> req.template]

\* SHA-256 in hex, symbolically: the digest names the text it was taken of.
\* A session cookie can also hold the empty text or a text that is no digest.
Sha256Hex(stateToken) == <<"sha256", stateToken>>
EmptyText == <<"empty", 0>>

\* bindStateToSession: the value of the __Host-CONSENTED_STATE cookie
bindStateToSession(stateToken) == Sha256Hex(stateToken)

\* generatePKCECodes: a verifier made for one authorization and its challenge
CodeVerifier(stateToken) == <<"verifier", stateToken>>
CodeChallenge(codeVerifier) == <<"S256", codeVerifier>>

\* The entry createOAuthState stores under oauth:state:<token>
NoEntry == [present |-> FALSE, oauthReqInfo |-> NoReqInfo, codeVerifier |-> <<"verifier", 0>>]
Entry(oauthReqInfo, codeVerifier) ==
    [present |-> TRUE, oauthReqInfo |-> oauthReqInfo, codeVerifier |-> codeVerifier]

\* An OAuthError, and no error
OAuthError(code, description) == [code |-> code, description |-> description]
NoError == [code |-> "", description |-> ""]

\* the session-binding check accepting any cookie
sessionBindingError_AnyCookie(stateHash, stateToken) ==
    IF stateHash = None \/ stateHash[1] = EmptyText
    THEN OAuthError("invalid_request", "Missing session binding - restart authorization")
    ELSE NoError

\* validateOAuthState, lines 1114-1133: the session cookie against the token
sessionBindingError(stateHash, stateToken) ==
    IF stateHash = None \/ stateHash[1] = EmptyText
    THEN OAuthError("invalid_request", "Missing session binding - restart authorization")
    ELSE IF stateHash[1] # Sha256Hex(stateToken)
    THEN OAuthError("invalid_request", "State mismatch - possible CSRF attack")
    ELSE NoError

\* validateOAuthState that takes a missing entry for a stored one
validateStored_IgnoresMissing(req, stored) ==
    LET e == sessionBindingError(req.cookie, req.state.token)
    IN  IF e # NoError THEN e
        ELSE IF ~IsString(stored.oauthReqInfo.clientId)
        THEN OAuthError("server_error", "Invalid stored state data")
        ELSE NoError

\* validateOAuthState without its await points: called with the entry that
\* kv.get returned, it gives the error thrown before kv.delete, or NoError
validateStored(req, stored) ==
    IF ~stored.present
    THEN OAuthError("invalid_request", "Invalid or expired state")
    ELSE LET e == sessionBindingError(req.cookie, req.state.token)
         IN  IF e # NoError THEN e
             ELSE IF ~IsString(stored.oauthReqInfo.clientId)
             THEN OAuthError("server_error", "Invalid stored state data")
             ELSE NoError

\* kv.delete that removes nothing
kvDelete_Keeps(store, stateToken) == store

kvDelete(store, stateToken) == [store EXCEPT ![stateToken] = NoEntry]
----------------------------------------------------------------------------
(* src/src/auth/oauth-handler.ts: the routes of createAuthHandlers *)

NoLast == [route |-> "none"]

EmptyJar == [approved |-> None, csrf |-> None, session |-> None]

NoCbReq == [code |-> None, state |-> [kind |-> "missing", token |-> 0], cookie |-> None]
NoGrant == [request |-> NoReqInfo, scope |-> <<>>, userId |-> ""]

IdleCb == [pc |-> "idle", req |-> NoCbReq, stored |-> NoEntry, error |-> NoError,
           late |-> FALSE, passed |-> FALSE, exchanged |-> FALSE, completed |-> FALSE,
           userId |-> "", grant |-> NoGrant, clearCookie |-> FALSE]

\* A response of GET or POST /authorize.  A Set-Cookie is None when the header
\* is not sent; location is the upstream authorization URL of a 302.
AuthResponse(kind, error, setApproved, setCsrf, setSession, location) ==
    [kind |-> kind, error |-> error, setApproved |-> setApproved,
     setCsrf |-> setCsrf, setSession |-> setSession, location |-> location]

\* OAuthError.toHtmlResponse and renderErrorPage: a page, no cookie, no redirect
ErrorResponse(error) == AuthResponse("error", error, None, None, None, None)
renderErrorPage(message) ==
    ErrorResponse(OAuthError("error_page", message))

\* redirectToCloudflare that asks upstream for the default template
redirectToCloudflare_DefaultScopes(oauthReqInfo, stateToken, codeChallenge, scopes) ==
    Some([state |-> [oauthReqInfo EXCEPT !.state = stateToken],
          scopes |-> DefaultTemplateScopes, codeChallenge |-> codeChallenge])

\* redirectToCloudflare: the 302 to the upstream authorization endpoint; its
\* state parameter carries the request with the correlation token as state
redirectToCloudflare(oauthReqInfo, stateToken, codeChallenge, scopes) ==
    Some([state |-> [oauthReqInfo EXCEPT !.state = stateToken],
          scopes |-> scopes, codeChallenge |-> codeChallenge])

\* What a response changes in the browser's cookie jar
JarUpdate(resp) == [approved |-> resp.setApproved, csrf |-> resp.setCsrf,
                    session |-> resp.setSession]
NoUpdate == [approved |-> None, csrf |-> None, session |-> None]

\* The response is delivered: a browser's response waits to be applied to its
\* jar, any other client's response leaves the model
Deliver(req, resp) ==
    IF req.fromBrowser /\ JarUpdate(resp) # NoUpdate
    THEN /\ Cardinality(inflight) < MaxInflight
         /\ inflight' = inflight \cup {JarUpdate(resp)}
    ELSE inflight' = inflight

\* createOAuthState that stores the copy made for the upstream redirect
createOAuthState_StoresRedirectCopy(oauthReqInfo, stateToken) ==
    /\ nextToken < MaxStates
    /\ stateToken = nextToken + 1
    /\ nextToken' = stateToken
    /\ kv' = [kv EXCEPT ![stateToken] =
                Entry([oauthReqInfo EXCEPT !.state = ToString(stateToken)],
                      CodeVerifier(stateToken))]

\* createOAuthState: a fresh token, and the entry stored under it
createOAuthState(oauthReqInfo, stateToken) ==
    /\ nextToken < MaxStates
    /\ stateToken = nextToken + 1
    /\ nextToken' = stateToken
    /\ kv' = [kv EXCEPT ![stateToken] = Entry(oauthReqInfo, CodeVerifier(stateToken))]

\* GET /authorize
GetAuthorize(req, csrfToken) ==
    LET oauthReqInfo == [clientId |-> req.clientId, scope |-> DefaultTemplateScopes,
                         state |-> req.state, responseType |-> req.responseType,
                         redirectUri |-> req.redirectUri]
        approved == clientIdAlreadyApproved(req.approved, req.clientId, CookieSecret)
    IN  /\ IF ~TruthyId(req.clientId)
           THEN /\ last' = [route |-> "GET", req |-> req, resp |->
                             ErrorResponse(OAuthError("invalid_request", "Missing client_id"))]
                /\ UNCHANGED <<kv, nextToken, inflight>>
           ELSE IF approved = "threw"
           THEN /\ last' = [route |-> "GET", req |-> req, resp |->
                             renderErrorPage("InvalidCharacterError")]
                /\ UNCHANGED <<kv, nextToken, inflight>>
           ELSE IF approved = "yes"
           THEN \E stateToken \in Tokens :
                  LET resp == AuthResponse("redirect", NoError, None, None,
                                  Some(bindStateToSession(stateToken)),
                                  redirectToCloudflare(oauthReqInfo, stateToken,
                                      CodeChallenge(CodeVerifier(stateToken)),
                                      DefaultTemplateScopes))
                  IN  /\ createOAuthState(oauthReqInfo, stateToken)
                      /\ last' = [route |-> "GET", req |-> req, resp |-> resp]
                      /\ Deliver(req, resp)
           ELSE LET resp == AuthResponse("consent", NoError, None, Some(csrfToken),
                                         None, None)
                IN  /\ last' = [route |-> "GET", req |-> req, resp |-> resp]
                    /\ Deliver(req, resp)
                    /\ UNCHANGED <<kv, nextToken>>
        /\ UNCHANGED <<jar, cb>>

\* POST /authorize
PostAuthorize(req) ==
    LET parsed == parseRedirectApproval(req, CookieSecret)
    IN  /\ IF parsed.threw
           THEN /\ last' = [route |-> "POST", req |-> req, resp |->
                             renderErrorPage(parsed.message)]
                /\ UNCHANGED <<kv, nextToken, inflight>>
           ELSE \E stateToken \in Tokens :
                  LET scopesToRequest ==
                          sliceTo(IF parsed.selectedScopes # None
                                     /\ Len(parsed.selectedScopes[1]) > 0
                                  THEN parsed.selectedScopes[1] ELSE <<>>, MAX_SCOPES)
                      oauthReqInfo == [parsed.oauthReqInfo EXCEPT !.scope = scopesToRequest]
                      resp == AuthResponse("redirect", NoError, parsed.setCookie, None,
                                  Some(bindStateToSession(stateToken)),
                                  redirectToCloudflare(oauthReqInfo, stateToken,
                                      CodeChallenge(CodeVerifier(stateToken)),
                                      scopesToRequest))
                  IN  /\ createOAuthState(oauthReqInfo, stateToken)
                      /\ last' = [route |-> "POST", req |-> req, resp |-> resp]
                      /\ Deliver(req, resp)
        /\ UNCHANGED <<jar, cb>>

\* The browser stores the cookies of a response it received
BrowserApply(u) ==
    /\ u \in inflight
    /\ inflight' = inflight \ {u}
    /\ jar' = [approved |-> IF u.approved # None THEN u.approved ELSE jar.approved,
               csrf |-> IF u.csrf # None THEN u.csrf ELSE jar.csrf,
               session |-> IF u.session # None THEN u.session ELSE jar.session]
    /\ UNCHANGED <<kv, nextToken, last, cb>>

\* The stored state outlives its expirationTtl of 600 seconds
KvExpire(stateToken) ==
    /\ kv[stateToken].present
    /\ kv' = [kv EXCEPT ![stateToken] = NoEntry]
    /\ UNCHANGED <<nextToken, jar, inflight, last, cb>>

\* GET /oauth/callback from its start to the await of kv.delete in
\* validateOAuthState: the code and state parameters, kv.get, the session
\* cookie and the schema of the stored entry
CallbackArrive(p, req) ==
    /\ cb[p].pc = "idle"
    /\ \A q \in Procs : q < p => cb[q].pc # "idle"
    /\ LET stateToken == req.state.token
           stored == IF stateToken \in Tokens THEN kv[stateToken] ELSE NoEntry
           err == IF ~Truthy(req.code)
                  THEN OAuthError("invalid_request", "Missing code")
                  ELSE IF req.state.kind = "missing"
                  THEN OAuthError("invalid_request", "Missing state parameter")
                  ELSE IF req.state.kind = "undecodable"
                  THEN OAuthError("invalid_request", "Failed to decode state")
                  ELSE validateStored(req, stored)
           late == req.state.kind = "ok" /\
                   \E q \in Procs : cb[q].passed /\ cb[q].req.state.token = stateToken
       IN  cb' = [cb EXCEPT ![p] = [@ EXCEPT !.req = req, !.late = late, !.error = err,
                                       !.stored = IF err = NoError THEN stored ELSE NoEntry,
                                       !.pc = IF err = NoError THEN "delete" ELSE "done"]]
    /\ UNCHANGED <<kv, nextToken, jar, inflight, last>>

\* kv.delete, the return of validateOAuthState, and the client id check
CallbackKvDelete(p) ==
    /\ cb[p].pc = "delete"
    /\ kv' = kvDelete(kv, cb[p].req.state.token)
    /\ LET err == IF ~TruthyId(cb[p].stored.oauthReqInfo.clientId)
                  THEN OAuthError("invalid_request", "Invalid OAuth request info")
                  ELSE NoError
       IN  cb' = [cb EXCEPT ![p] = [@ EXCEPT !.passed = TRUE, !.error = err,
                                       !.pc = IF err = NoError THEN "exchange" ELSE "done"]]
    /\ UNCHANGED <<nextToken, jar, inflight, last>>

\* getAuthToken with the stored code verifier, joined with createClient
CallbackExchange(p, ok) ==
    /\ cb[p].pc = "exchange"
    /\ cb' = [cb EXCEPT ![p] =
                [@ EXCEPT !.exchanged = TRUE,
                          !.error = IF ok THEN NoError
                                    ELSE OAuthError("error_page", "Token exchange failed"),
                          !.pc = IF ok THEN "identity" ELSE "done"]]
    /\ UNCHANGED <<kv, nextToken, jar, inflight, last>>

\* getUserAndAccounts with the new access token
CallbackIdentity(p, up) ==
    /\ cb[p].pc = "identity"
    /\ LET r == getUserAndAccounts(up)
           err == IF r.threw THEN OAuthError("error_page", r.message)
                  ELSE IF r.user = None
                  THEN OAuthError("server_error",
                                  "Failed to fetch user information from Cloudflare")
                  ELSE NoError
       IN  cb' = [cb EXCEPT ![p] =
                    [@ EXCEPT !.error = err,
                              !.userId = IF err = NoError THEN r.user[1].id ELSE "",
                              !.pc = IF err = NoError THEN "complete" ELSE "done"]]
    /\ UNCHANGED <<kv, nextToken, jar, inflight, last>>

\* completeAuthorization and the final redirect, which clears the session cookie
CallbackComplete(p) ==
    /\ cb[p].pc = "complete"
    /\ cb' = [cb EXCEPT ![p] =
                [@ EXCEPT !.completed = TRUE,
                          !.grant = [request |-> cb[p].stored.oauthReqInfo,
                                     scope |-> cb[p].stored.oauthReqInfo.scope,
                                     userId |-> cb[p].userId],
                          !.clearCookie = TRUE,
                          !.pc = "done"]]
    /\ UNCHANGED <<kv, nextToken, jar, inflight, last>>
----------------------------------------------------------------------------
(* src/src/executor.ts: the request() shim of the execute unit *)

\* Bound of the upstream answers
MaxErrors == 2     \* entries of the errors array of a GraphQL answer

\* A text is a sequence of parts; the empty text is the empty sequence.
\* JavaScript values: undefined, null, a string, a plain object, an Error.
\* message is the value's message property, None when it has none.
JsValue(type, text, message) == [type |-> type, text |-> text, message |-> message]
Undefined == JsValue("undefined", <<>>, None)
JsNull == JsValue("null", <<>>, None)
JsString(text) == JsValue("string", text, None)
JsNumber(n) == JsValue("number", <<n>>, None)
JsObject(name) == JsValue("object", <<name>>, None)
JsError(message) == JsValue("Error", <<>>, Some(message))
JsTypeError(message) == JsValue("TypeError", <<>>, Some(message))

\* JavaScript truthiness of a value
TruthyValue(v) ==
    /\ v.type \notin {"undefined", "null"}
    /\ ~(v.type = "string" /\ v.text = <<>>)
    /\ ~(v.type = "number" /\ v.text = <<"0">>)

\* JSON.stringify(value): the JSON text of the value, which is not the value
JSONstringify(v) == JsValue("string", <<"json">> \o <<v.type>> \o v.text, None)

\* The options of one request() call.  A path is a sequence of "/", "?" and
\* segment names.
Options(method, path, body, contentType, rawBody) ==
    [method |-> method, path |-> path, body |-> body, contentType |-> contentType,
     rawBody |-> rawBody]

\* What request() hands to fetch: lines 43-64
NoRequestBody == Undefined

RequestHeaders(options) ==
    [authorization |-> "Bearer apiToken",
     contentType |-> IF Truthy(options.contentType) THEN options.contentType
                     ELSE IF TruthyValue(options.body) /\ ~options.rawBody
                     THEN Some(<<"application/json">>)
                     ELSE None]

RequestBody(options) ==
    IF options.rawBody THEN options.body
    ELSE IF TruthyValue(options.body) THEN JSONstringify(options.body)
    ELSE NoRequestBody

FetchInit(options) ==
    [path |-> options.path, method |-> options.method,
     headers |-> RequestHeaders(options), body |-> RequestBody(options)]

\* path.split('?')[0].replace(/\/+$/, '')
RECURSIVE stripTrailingSlashes(_)
stripTrailingSlashes(p) ==
    IF p # <<>> /\ p[Len(p)] = "/" THEN stripTrailingSlashes(SubSeq(p, 1, Len(p) - 1))
    ELSE p

cleanPath(path) == stripTrailingSlashes(split(path, "?")[1])

endsWith(s, suffix) ==
    Len(s) >= Len(suffix) /\ SubSeq(s, Len(s) - Len(suffix) + 1, Len(s)) = suffix

GraphQLPath == <<"/", "graphql">>

isGraphQLEndpoint(path) ==
    cleanPath(path) = GraphQLPath \/ endsWith(cleanPath(path), GraphQLPath)

\* One entry of the errors array of a GraphQL answer, and its mapping
GraphQLErrorEntry(message, path, code) ==
    [message |-> message, path |-> path, code |-> code]

RECURSIVE join(_, _)
join(list, sep) ==
    IF list = <<>> THEN <<>>
    ELSE IF Len(list) = 1 THEN <<list[1]>>
    ELSE <<list[1], sep>> \o join(Tail(list), sep)

mapGraphQLError(e) ==
    [code |-> IF e.code # None THEN e.code[1] ELSE "0",
     message |-> <<e.message>> \o
                 (IF e.path # None THEN <<" (at ">> \o join(e.path[1], ".") \o <<")">>
                  ELSE <<>>)]

\* A field of a JSON answer that may be absent, null, a value that is not an
\* array, or an array
Field(kind, items) == [kind |-> kind, items |-> items]
Absent == Field("absent", <<>>)
NullField == Field("null", <<>>)
NotArray == Field("not_array", <<>>)
ArrayField(items) == Field("array", items)
DataField(name) == Field("value", <<name>>)

\* The upstream answer: status, content type and body.  The body of a JSON
\* answer has the fields success, errors, data and result.
JsonBody(success, errors, data) == [success |-> success, errors |-> errors, data |-> data]
NoJsonBody == JsonBody("absent", Absent, Absent)

UpstreamResponse(status, contentType, text, json) ==
    [status |-> status, contentType |-> contentType, text |-> text, json |-> json]

responseOk(answer) == answer.status >= 200 /\ answer.status <= 299

\* What request() returns: { success, status, result, errors, messages }.
\* errors and messages are None on the branches that do not set them; the
\* REST branch spreads the upstream body, which result then stands for.
Envelope(branch, success, status, result, errors, messages) ==
    [branch |-> branch, success |-> success, status |-> status, result |-> result,
     errors |-> errors, messages |-> messages]
NoEnvelope == Envelope("none", FALSE, 0, Absent, None, None)

RequestThrew(error) == [threw |-> TRUE, error |-> error, value |-> NoEnvelope]
RequestReturned(value) == [threw |-> FALSE, error |-> Undefined, value |-> value]

\* lines 68-75: an answer that is not JSON
nonJsonBranch(answer) ==
    IF ~responseOk(answer)
    THEN RequestThrew(JsError(<<"Cloudflare API error: ", ToString(answer.status), " ">>
                              \o answer.text))
    ELSE RequestReturned(Envelope("text", TRUE, answer.status,
                                  Field("text", answer.text), None, None))

\* the GraphQL branch throwing whenever the answer carries errors
graphqlBranch_AllOrNothing(answer) ==
    IF answer.json.errors.kind = "array" /\ Len(answer.json.errors.items) > 0
    THEN RequestThrew(JsError(<<"GraphQL error: ">>))
    ELSE RequestReturned(Envelope("graphql", TRUE, answer.status, answer.json.data,
                                  Some(<<>>), Some(<<>>)))

\* lines 83-107: a JSON answer on a GraphQL path
graphqlBranch(answer) ==
    LET data == answer.json
        graphqlErrors == IF data.errors.kind = "array" THEN data.errors.items ELSE <<>>
        hasData == data.data.kind \notin {"null", "absent"}
    IN  IF Len(graphqlErrors) > 0 /\ ~hasData
        THEN RequestThrew(JsError(<<"GraphQL error: ">> \o
                 join([i \in 1..Len(graphqlErrors) |-> graphqlErrors[i].message], ", ")))
        ELSE RequestReturned(Envelope("graphql", Len(graphqlErrors) = 0, answer.status,
                 data.data,
                 Some([i \in 1..Len(graphqlErrors) |-> mapGraphQLError(graphqlErrors[i])]),
                 Some(IF Len(graphqlErrors) > 0
                      THEN <<[code |-> "0",
                              message |-> <<"Partial response: ",
                                            ToString(Len(graphqlErrors)), " error(s)">>]>>
                      ELSE <<>>)))

\* lines 109-115: a JSON answer on any other path
restBranch(answer) ==
    LET data == answer.json
    IN  IF data.success # "true"
        THEN IF data.errors.kind = "array"
             THEN RequestThrew(JsError(<<"Cloudflare API error: ">> \o
                      join([i \in 1..Len(data.errors.items) |->
                               (IF data.errors.items[i].code # None
                                THEN data.errors.items[i].code[1] ELSE "undefined")
                               \o ": " \o data.errors.items[i].message], ", ")))
             ELSE IF data.errors.kind = "not_array"
             THEN RequestThrew(JsTypeError(<<"data.errors.map is not a function">>))
             ELSE RequestThrew(JsTypeError(<<"Cannot read properties of ",
                                             data.errors.kind, " (reading 'map')">>))
        ELSE RequestReturned(Envelope("rest", TRUE, answer.status,
                                      Field("body", <<>>), None, None))

\* request(options), given the answer of the upstream API
requestResult(options, answer) ==
    IF ~includes(answer.contentType, "application/json")
    THEN nonJsonBranch(answer)
    ELSE IF isGraphQLEndpoint(options.path) THEN graphqlBranch(answer)
    ELSE restBranch(answer)

----------------------------------------------------------------------------
(* src/src/index.ts: GlobalOutbound, the gate of the execute unit's fetches *)

ALLOWED_HOSTNAMES == <<"api.cloudflare.com">>

\* A URL text in parts: scheme, [userinfo "@"], host, [":" port], path
UrlText(userinfo, host, port, path) ==
    <<"https://">> \o (IF userinfo # None THEN <<userinfo[1], "@">> ELSE <<>>)
    \o <<host>> \o (IF port # None THEN <<":", port[1]>> ELSE <<>>) \o path

\* the index of the last part equal to x, 0 when there is none
lastIndexOf(s, x) ==
    IF \E i \in 1..Len(s) : s[i] = x
    THEN CHOOSE i \in 1..Len(s) : s[i] = x /\ \A j \in (i + 1)..Len(s) : s[j] # x
    ELSE 0

\* new URL(text).hostname: the authority ends at the first "/" or "?", the
\* userinfo at its last "@", the host at the ":" of the port
hostname(urlText) ==
    LET rest == Tail(urlText)
        stops == {i \in 1..Len(rest) : rest[i] \in {"/", "?"}}
        end == IF stops = {} THEN Len(rest)
               ELSE (CHOOSE i \in stops : \A j \in stops : i <= j) - 1
        authority == SubSeq(rest, 1, end)
        hostport == SubSeq(authority, lastIndexOf(authority, "@") + 1, Len(authority))
    IN  hostport[1]

Forbidden(host) == [status |-> 403, forwarded |-> FALSE, host |-> host]
Forwarded(host) == [status |-> 200, forwarded |-> TRUE, host |-> host]

\* the gate matching the start of the hostname only
GlobalOutboundFetch_PrefixMatch(urlText) ==
    IF \E i \in 1..Len(ALLOWED_HOSTNAMES) :
           hostname(urlText) \in {ALLOWED_HOSTNAMES[i], ALLOWED_HOSTNAMES[i] \o ".evil.com"}
    THEN Forwarded(hostname(urlText))
    ELSE Forbidden(hostname(urlText))

\* GlobalOutbound.fetch: 403, or the request forwarded to the network
GlobalOutboundFetch(urlText) ==
    IF ~includes(ALLOWED_HOSTNAMES, hostname(urlText))
    THEN Forbidden(hostname(urlText))
    ELSE Forwarded(hostname(urlText))

----------------------------------------------------------------------------
(* src/src/executor.ts: the isolated units and the executors *)

\* The submitted code: it returns a value, throws a value, awaits one
\* cloudflare.request() (catching what that throws or not), or awaits one
\* fetch() of its own
Code(kind, value, options, catches, url) ==
    [kind |-> kind, value |-> value, options |-> options, catches |-> catches, url |-> url]

NoOptions == Options("GET", <<"/">>, Undefined, None, FALSE)
NoUrl == UrlText(None, "none", None, <<>>)

\* env.CLOUDFLARE_API_BASE
ApiBase == UrlText(None, "api.cloudflare.com", None, <<"/", "client", "/", "v4">>)

\* The value the code's promise settles with
Result(js, envelope) == [js |-> js, envelope |-> envelope]
JsResult(v) == Result(v, NoEnvelope)

Completed(result, sent, fetched) ==
    [threw |-> FALSE, thrown |-> Undefined, result |-> result, sent |-> sent,
     fetched |-> fetched]
ThrewValue(thrown, sent, fetched) ==
    [threw |-> TRUE, thrown |-> thrown, result |-> JsResult(Undefined), sent |-> sent,
     fetched |-> fetched]

\* The unit's own fetch: through globalOutbound, or nowhere when it is null
unitFetch(globalOutbound, urlText) ==
    IF globalOutbound = None
    THEN [status |-> 0, forwarded |-> FALSE, host |-> hostname(urlText)]
    ELSE GlobalOutboundFetch(urlText)

\* await (code)() inside the unit.  apiBase is https://api.cloudflare.com/...;
\* the search unit has no cloudflare object.
runCode(fn, globalOutbound, code, answer) ==
    IF code.kind = "return" THEN Completed(JsResult(code.value), None, None)
    ELSE IF code.kind = "throw" THEN ThrewValue(code.value, None, None)
    ELSE IF code.kind = "fetch"
    THEN LET r == unitFetch(globalOutbound, code.url)
         IN  IF globalOutbound = None
             THEN ThrewValue(JsError(<<"fetch is not available">>), None, Some(r))
             ELSE Completed(JsResult(JsNumber(ToString(r.status))), None, Some(r))
    ELSE IF fn = "search"
    THEN ThrewValue(JsValue("ReferenceError", <<>>, Some(<<"cloudflare is not defined">>)),
                    None, None)
    ELSE LET r == requestResult(code.options, answer)
             sent == Some(FetchInit(code.options))
             fetched == Some(unitFetch(globalOutbound, ApiBase \o code.options.path))
         IN  IF ~r.threw THEN Completed(Result(Undefined, r.value), sent, fetched)
             ELSE IF code.catches
             THEN Completed(JsResult(JsString(<<"caught">>)), sent, fetched)
             ELSE ThrewValue(r.error, sent, fetched)

\* evaluate() / #run(): { result, err, stack }, or a throw out of the catch
\* block itself when the thrown value has no properties to read
EvaluateRecord(result, err, stack) ==
    [threw |-> FALSE, error |-> Undefined, result |-> result, err |-> err, stack |-> stack]
EvaluateThrew(error) ==
    [threw |-> TRUE, error |-> error, result |-> JsResult(Undefined), err |-> None,
     stack |-> None]

evaluate(run) ==
    IF ~run.threw THEN EvaluateRecord(run.result, None, None)
    ELSE IF run.thrown.type \in {"undefined", "null"}
    THEN EvaluateThrew(JsTypeError(<<"Cannot read properties of ", run.thrown.type,
                                     " (reading 'message')">>))
    ELSE EvaluateRecord(JsResult(Undefined), run.thrown.message,
                        IF run.thrown.type \in {"Error", "TypeError", "ReferenceError"}
                        THEN Some(<<"stack">>) ELSE None)

\* The executor after entrypoint.evaluate: lines 137-143 and 181-187
Rejected(error) == [kind |-> "rejected", error |-> error, result |-> JsResult(Undefined)]
Resolved(result) == [kind |-> "resolved", error |-> Undefined, result |-> result]

executorResult(evaluated) ==
    IF evaluated.threw THEN Rejected(evaluated.error)
    ELSE IF Truthy(evaluated.err) THEN Rejected(JsError(evaluated.err[1]))
    ELSE Resolved(evaluated.result)

\* One call of an executor, from the creation of the unit to its return
NoRun == Completed(JsResult(Undefined), None, None)
NoEvaluate == EvaluateRecord(JsResult(Undefined), None, None)
NoFinal == [kind |-> "none", error |-> Undefined, result |-> JsResult(Undefined)]

ExecState(pc, globalOutbound, run, answer, final) ==
    [pc |-> pc, globalOutbound |-> globalOutbound, run |-> run, response |-> answer,
     final |-> final]

\* env.LOADER.get with the unit's configuration; the search executor first
\* reads spec.json from the bucket
CreateUnit ==
    /\ outcome.pc = "start"
    /\ outcome' =
          IF call.fn = "search" /\ ~call.specPresent
          THEN ExecState("done", None, NoRun, NoEvaluate,
                         Rejected(JsError(<<"spec.json not found in R2. ",
                                            "Run the scheduled handler to populate it.">>)))
          ELSE ExecState("loaded",
                         IF call.fn = "execute" THEN Some("GLOBAL_OUTBOUND") ELSE None,
                         NoRun, NoEvaluate, NoFinal)
    /\ UNCHANGED <<call, entryVars, bapVars, oauthVars>>

\* entrypoint.evaluate inside the unit
Evaluate ==
    /\ outcome.pc = "loaded"
    /\ LET run == runCode(call.fn, outcome.globalOutbound, call.code, call.response)
       IN  outcome' = [outcome EXCEPT !.pc = "evaluated", !.run = run,
                                      !.response = evaluate(run)]
    /\ UNCHANGED <<call, entryVars, bapVars, oauthVars>>

\* the executor turns the record into its own result
ExecutorReturn ==
    /\ outcome.pc = "evaluated"
    /\ outcome' = [outcome EXCEPT !.pc = "done", !.final = executorResult(outcome.response)]
    /\ UNCHANGED <<call, entryVars, bapVars, oauthVars>>

\* Submitted code and upstream answers
ReturnedValues == {Undefined, JsNull, JsString(<<"r">>)}
ThrownValues ==
    {JsError(<<"boom">>), JsError(<<>>), JsString(<<"oops">>), JsNumber("5"),
     JsObject("o"), JsValue("object", <<"o">>, Some(<<"m">>)), JsNull, Undefined}

RequestPaths ==
    {<<"/", "zones">>, <<"/", "graphql">>, <<"/", "graphql", "/">>,
     <<"/", "client", "/", "graphql", "?", "q">>, <<"/", "graphql", "/", "zones">>}

RequestBodies == {Undefined, JsString(<<"hi">>), JsString(<<>>), JsObject("payload")}
ContentTypes == {None, Some(<<"text/plain">>), Some(<<>>)}

ErrorEntries ==
    {GraphQLErrorEntry("e1", None, None),
     GraphQLErrorEntry("e2", Some(<<"viewer", "zones">>), Some("authz"))}

ErrorsFields ==
    {Absent, NullField, NotArray}
    \cup {ArrayField(l) : l \in UNION {[1..n -> ErrorEntries] : n \in 0..MaxErrors}}

JsonBodies ==
    {JsonBody(s, e, d) : s \in {"true", "false", "absent"}, e \in ErrorsFields,
                         d \in {Absent, NullField, DataField("d")}}

Statuses == {200, 404, 500}

UpstreamResponses ==
    {UpstreamResponse(st, ct, <<"text">>, NoJsonBody) :
        st \in Statuses, ct \in {<<>>, <<"text/plain">>}}
    \cup {UpstreamResponse(st, ct, <<>>, j) :
            st \in Statuses, j \in JsonBodies,
            ct \in {<<"application/json">>, <<"application/json", "; charset=utf-8">>}}

OkResponse == UpstreamResponse(200, <<"application/json">>, <<>>,
                               JsonBody("true", ArrayField(<<>>), Absent))

FetchUrls ==
    {UrlText(u, h, p, <<"/", "x">>) :
        u \in {None, Some("api.cloudflare.com")},
        h \in {"api.cloudflare.com", "evil.com", "api.cloudflare.com.evil.com",
               "dash.cloudflare.com"},
        p \in {None, Some("443")}}

SimpleCodes ==
    {Code("return", v, NoOptions, FALSE, NoUrl) : v \in ReturnedValues}
    \cup {Code("throw", v, NoOptions, FALSE, NoUrl) : v \in ThrownValues}
    \cup {Code("fetch", Undefined, NoOptions, FALSE, u) : u \in FetchUrls}

ExecutorCall(fn, code, answer, specPresent) ==
    [fn |-> fn, code |-> code, response |-> answer, specPresent |-> specPresent]

ExecutorCalls ==
    {ExecutorCall(fn, c, OkResponse, TRUE) : fn \in {"execute", "search"}, c \in SimpleCodes}
    \cup {ExecutorCall("search", Code("return", Undefined, NoOptions, FALSE, NoUrl),
                       OkResponse, FALSE)}
    \cup {ExecutorCall("search", Code("request", Undefined, NoOptions, FALSE, NoUrl),
                       OkResponse, TRUE)}
    \cup {ExecutorCall("execute",
                       Code("request", Undefined, Options("POST", <<"/", "zones">>, b, ct, raw),
                            FALSE, NoUrl), OkResponse, TRUE) :
            b \in RequestBodies, ct \in ContentTypes, raw \in BOOLEAN}
    \cup {ExecutorCall("execute",
                       Code("request", Undefined, Options("GET", p, Undefined, None, FALSE),
                            catches, NoUrl), r, TRUE) :
            p \in RequestPaths, catches \in BOOLEAN, r \in UpstreamResponses}
----------------------------------------------------------------------------
(* src/src/auth/oauth-handler.ts: handleTokenExchangeCallback *)

\* The props stored with a grant.  A field that the object lacks is None.
Props(type, accessToken, refreshToken, user, accounts, account, email, apiKey) ==
    [type |-> type, accessToken |-> accessToken, refreshToken |-> refreshToken,
     user |-> user, accounts |-> accounts, account |-> account, email |-> email,
     apiKey |-> apiKey]

UserTokenProps(accessToken, refreshToken, user, accounts) ==
    Props("user_token", Some(accessToken), refreshToken, Some(user), Some(accounts),
          None, None, None)

\* AuthPropsSchema.parse: whether the props match the variant their type names
AuthPropsSchemaAccepts(props) ==
    \/ /\ props.type = "account_token"
       /\ props.accessToken # None /\ props.account # None
    \/ /\ props.type = "user_token"
       /\ props.accessToken # None /\ props.user # None /\ props.accounts # None
    \/ /\ props.type = "global_api_key"
       /\ props.email # None /\ props.apiKey # None
       /\ props.user # None /\ props.accounts # None

\* What the upstream token endpoint answers to a refresh
TokenAnswer(kind, access_token, refresh_token, expires_in) ==
    [kind |-> kind, access_token |-> access_token, refresh_token |-> refresh_token,
     expires_in |-> expires_in]

NoNewProps == Props("none", None, None, None, None, None, None, None)

ExchangeState(pc, kind, newProps, accessTokenTTL, upstreamCalled, message) ==
    [pc |-> pc, kind |-> kind, newProps |-> newProps, accessTokenTTL |-> accessTokenTTL,
     upstreamCalled |-> upstreamCalled, message |-> message]

ExchangeUndefined == ExchangeState("done", "undefined", NoNewProps, 0, FALSE, "")

\* the props that are refreshed: any user_token, with or without refresh token
refreshable_AnyUserToken(props) == props.type = "user_token"

\* line 141: props.type === 'user_token' && props.refreshToken
refreshable(props) == props.type = "user_token" /\ Truthy(props.refreshToken)

\* handleTokenExchangeCallback up to the await of refreshAuthToken
TokenExchangeStart ==
    /\ outcome.pc = "start"
    /\ outcome' =
          IF call.grantType # "refresh_token" THEN ExchangeUndefined
          ELSE IF ~AuthPropsSchemaAccepts(call.props)
          THEN ExchangeState("done", "threw", NoNewProps, 0, FALSE, "ZodError")
          ELSE IF ~refreshable(call.props) THEN ExchangeUndefined
          ELSE ExchangeState("refreshing", "none", NoNewProps, 0, TRUE, "")
    /\ UNCHANGED <<call, entryVars, bapVars, oauthVars>>

\* refreshAuthToken returns or throws, and the handler returns the new props
TokenExchangeRefreshed ==
    /\ outcome.pc = "refreshing"
    /\ outcome' =
          IF call.answer.kind = "not_ok"
          THEN ExchangeState("done", "threw", NoNewProps, 0, TRUE, "Token refresh failed")
          ELSE IF call.answer.kind = "bad_shape"
          THEN ExchangeState("done", "threw", NoNewProps, 0, TRUE, "ZodError")
          ELSE ExchangeState("done", "result",
                   [call.props EXCEPT !.accessToken = Some(call.answer.access_token),
                                      !.refreshToken = Some(call.answer.refresh_token)],
                   call.answer.expires_in, TRUE, "")
    /\ UNCHANGED <<call, entryVars, bapVars, oauthVars>>

\* Stored props of every variant, whole and with fields missing
StoredProps ==
    {UserTokenProps(<<"a0">>, r, u, a) :
        r \in {None, Some(<<>>), Some(<<"r0">>)}, u \in Users, a \in AccountLists}
    \cup {Props("account_token", Some(<<"a0">>), None, None, None, Some(Account(1)),
                None, None),
          Props("global_api_key", None, None, Some([id |-> "u1", email |-> "e1"]),
                Some(<<Account(1)>>), None, Some("e1"), Some("k")),
          Props("user_token", Some(<<"a0">>), Some(<<"r0">>), None, Some(<<>>),
                None, None, None),
          Props("account_token", Some(<<"a0">>), Some(<<"r0">>), None, None, None,
                None, None),
          Props("unknown", Some(<<"a0">>), Some(<<"r0">>),
                Some([id |-> "u1", email |-> "e1"]), Some(<<>>), None, None, None)}

TokenAnswers ==
    {TokenAnswer("ok", <<"a1">>, <<"r1">>, 3600), TokenAnswer("ok", <<"a2">>, <<"r0">>, 60),
     TokenAnswer("not_ok", <<>>, <<>>, 0), TokenAnswer("bad_shape", <<>>, <<>>, 0)}

ExchangeCalls ==
    {[fn |-> "handleTokenExchangeCallback", grantType |-> g, props |-> p, answer |-> a] :
        g \in {"refresh_token", "authorization_code"}, p \in StoredProps, a \in TokenAnswers}

----------------------------------------------------------------------------
(* truncateResponse (src/truncate.ts, known from its tests and the spec) *)

CHARS_PER_TOKEN == 4
MAX_TOKENS == 6000
MAX_CHARS == MAX_TOKENS * CHARS_PER_TOKEN

\* Bounds of the contents
MaxShort == 3          \* lengths 0..MaxShort of short texts
MaxOverLimit == 3      \* lengths up to MAX_CHARS + MaxOverLimit around the limit

\* A long text is a sequence of runs, each n > 0 copies of one character, with
\* neighbouring runs of different characters
Run(ch, n) == [ch |-> ch, n |-> n]

RECURSIVE textLength(_)
textLength(t) == IF t = <<>> THEN 0 ELSE Head(t).n + textLength(Tail(t))

\* String.prototype.slice(0, k)
RECURSIVE sliceText(_, _)
sliceText(t, k) ==
    IF t = <<>> \/ k <= 0 THEN <<>>
    ELSE IF Head(t).n <= k THEN <<Head(t)>> \o sliceText(Tail(t), k - Head(t).n)
    ELSE <<Run(Head(t).ch, k)>>

\* A content: a string, or a value with its JSON.stringify(value, null, 2)
Content(type, text, json) == [type |-> type, text |-> text, json |-> json]

\* Math.ceil(length / CHARS_PER_TOKEN)
estimatedTokens(length) == (length + CHARS_PER_TOKEN - 1) \div CHARS_PER_TOKEN

\* the block appended to a truncated text
TruncationBlock(tokens) ==
    [marker |-> "--- TRUNCATED ---", tokens |-> tokens, limit |-> "6,000",
     hint |-> "Use more specific queries to reduce response size."]
NoBlock == [marker |-> "", tokens |-> 0, limit |-> "", hint |-> ""]

Truncated(text, block) == [text |-> text, block |-> block]

\* truncateResponse cutting texts of exactly the limit too
truncateResponse_OpenInterval(content) ==
    LET text == IF content.type = "string" THEN content.text ELSE content.json
    IN  IF textLength(text) < MAX_CHARS THEN Truncated(text, NoBlock)
        ELSE Truncated(sliceText(text, MAX_CHARS),
                       TruncationBlock(estimatedTokens(textLength(text))))

truncateResponse(content) ==
    LET text == IF content.type = "string" THEN content.text ELSE content.json
    IN  IF textLength(text) <= MAX_CHARS THEN Truncated(text, NoBlock)
        ELSE Truncated(sliceText(text, MAX_CHARS),
                       TruncationBlock(estimatedTokens(textLength(text))))

CallTruncateResponse ==
    /\ outcome.pc = "start"
    /\ outcome' = [pc |-> "done", returned |-> truncateResponse(call.content)]
    /\ UNCHANGED <<call, entryVars, bapVars, oauthVars>>

\* Texts of one and of two runs, short and around the limit
TextLengths ==
    (0..MaxShort) \cup ((MAX_CHARS - 2)..(MAX_CHARS + MaxOverLimit)) \cup {30000}

TextOfLength(n, cut) ==
    IF n = 0 THEN <<>>
    ELSE IF cut = 0 \/ cut >= n THEN <<Run("x", n)>>
    ELSE <<Run("x", cut), Run("y", n - cut)>>

Texts == {TextOfLength(n, k) : n \in TextLengths, k \in {0, 1, MAX_CHARS - 1}}

\* JSON.stringify(text, null, 2) of a string: the text in quotes
quoted(text) == <<Run("q", 1)>> \o text \o <<Run("q", 1)>>

Contents ==
    {Content("string", t, quoted(t)) : t \in Texts}
    \cup {Content("null", <<>>, <<Run("n", 1), Run("u", 1), Run("l", 2)>>)}
    \cup {Content("array", <<>>, <<Run("[", 1)>> \o t \o <<Run("]", 1)>>) : t \in Texts}
    \cup {Content("object", <<>>, <<Run("{", 1)>> \o t \o <<Run("}", 1)>>) : t \in Texts}
----------------------------------------------------------------------------
(* resolveRefs (src/src/spec-processor.ts) *)

\* A JSON value: kind is "undefined", "null", "string", "number", "array" or
\* "object"; a string's text is the sequence of parts between its slashes;
\* an object's keys are in insertion order, items[i] under keys[i]
Node(kind, text, keys, items) ==
    [kind |-> kind, text |-> text, keys |-> keys, items |-> items]

UndefinedNode == Node("undefined", <<>>, <<>>, <<>>)
NullNode == Node("null", <<>>, <<>>, <<>>)
Str(text) == Node("string", text, <<>>, <<>>)
Num(n) == Node("number", <<ToString(n)>>, <<>>, <<>>)
Arr(items) == Node("array", <<>>, <<>>, items)
Obj(keys, items) == Node("object", <<>>, keys, items)

\* key in record
hasKey(record, key) == \E i \in 1..Len(record.keys) : record.keys[i] = key

\* record[key], undefined when the key is absent
property(record, key) ==
    IF hasKey(record, key)
    THEN record.items[CHOOSE i \in 1..Len(record.keys) : record.keys[i] = key]
    ELSE UndefinedNode

\* array[part]: the element when the part is the text of an index
element(array, part) ==
    IF \E i \in 1..Len(array.items) : ToString(i - 1) = part
    THEN array.items[CHOOSE i \in 1..Len(array.items) : ToString(i - 1) = part]
    ELSE UndefinedNode

\* (resolved as Record)?.[part]
optionalIndex(resolved, part) ==
    IF resolved.kind = "object" THEN property(resolved, part)
    ELSE IF resolved.kind = "array" THEN element(resolved, part)
    ELSE UndefinedNode

\* ref.replace('#/', '').split('/'): the first "#/" goes, wherever it is
refParts(ref) ==
    IF \E i \in 1..(Len(ref) - 1) : ref[i] = "#"
    THEN LET i == CHOOSE k \in 1..(Len(ref) - 1) :
                      ref[k] = "#" /\ \A j \in 1..(k - 1) : ref[j] # "#"
         IN SubSeq(ref, 1, i - 1) \o SubSeq(ref, i + 1, Len(ref))
    ELSE ref

RECURSIVE walk(_, _)
\* for (const part of parts) resolved = resolved?.[part]
walk(resolved, parts) ==
    IF parts = <<>> THEN resolved
    ELSE walk(optionalIndex(resolved, Head(parts)), Tail(parts))

\* '$ref' in record && typeof record.$ref === 'string'
isRef(record) == hasKey(record, "$ref") /\ property(record, "$ref").kind = "string"

CircularMarker(ref) == Obj(<<"$circular">>, <<Str(ref)>>)

RefResult(value, seen) == [value |-> value, seen |-> seen]

RECURSIVE resolveRefs(_, _, _)
RECURSIVE resolveEach(_, _, _)

\* items.map(item => resolveRefs(item, spec, seen)), and the loop over
\* Object.entries: in order, every call adding to the one seen set
resolveEach(items, spec, seen) ==
    IF items = <<>> THEN [values |-> <<>>, seen |-> seen]
    ELSE LET first == resolveRefs(Head(items), spec, seen)
             rest == resolveEach(Tail(items), spec, first.seen)
         IN [values |-> <<first.value>> \o rest.values, seen |-> rest.seen]

resolveRefs(obj, spec, seen) ==
    IF obj.kind \in {"null", "undefined"} THEN RefResult(obj, seen)
    ELSE IF obj.kind \notin {"object", "array"} THEN RefResult(obj, seen)
    ELSE IF obj.kind = "array"
    THEN LET each == resolveEach(obj.items, spec, seen)
         IN RefResult(Arr(each.values), each.seen)
    ELSE IF isRef(obj)
    THEN LET ref == property(obj, "$ref").text
         IN IF ref \in seen THEN RefResult(CircularMarker(ref), seen)
            ELSE LET target == resolveRefs(walk(spec, refParts(ref)), spec,
                                           seen \cup {ref})
                 IN RefResult(target.value, target.seen)
    ELSE LET each == resolveEach(obj.items, spec, seen)
         IN RefResult(Obj(obj.keys, each.values), each.seen)

\* resolveRefs(obj, spec) with the default seen = new Set()
CallResolveRefs ==
    /\ outcome.pc = "start"
    /\ call.fn = "resolveRefs"
    /\ outcome' = [pc |-> "done",
                   returned |-> resolveRefs(call.obj, call.spec, {}).value]
    /\ UNCHANGED <<call, entryVars, bapVars, oauthVars>>

\* Specs and fragments: the ones of the tests, and fragments where one
\* reference occurs several times
MaxRepeat == 3    \* occurrences of one reference in a fragment

Ref(name) == Obj(<<"$ref">>, <<Str(<<"#", "components", "schemas", name>>)>>)

Schemas(names, bodies) ==
    Obj(<<"components">>, <<Obj(<<"schemas">>, <<Obj(names, bodies)>>)>>)

StringType == Obj(<<"type">>, <<Str(<<"string">>)>>)

RefSpecs ==
    {Obj(<<>>, <<>>),
     Schemas(<<"A", "B">>, <<StringType, Obj(<<"item">>, <<Ref("A")>>)>>),
     Schemas(<<"A", "B">>, <<StringType, Obj(<<"left", "right">>, <<Ref("A"), Ref("A")>>)>>),
     Schemas(<<"A">>, <<Obj(<<"type", "properties">>,
                            <<Str(<<"object">>), Obj(<<"child">>, <<Ref("A")>>)>>)>>),
     Schemas(<<"A", "B">>, <<Obj(<<"next">>, <<Ref("B")>>), Obj(<<"next">>, <<Ref("A")>>)>>)}

Repeated(node, n) == [i \in 1..n |-> node]

RefFragments ==
    {Str(<<"hello">>), Num(42), NullNode, UndefinedNode,
     Ref("A"), Ref("B"), Ref("Missing"),
     Obj(<<"$ref">>, <<Num(42)>>),
     Arr(<<Ref("A"), Obj(<<"type">>, <<Str(<<"number">>)>>)>>),
     Arr(<<Ref("A"), Ref("B")>>), Arr(<<Ref("B"), Ref("A")>>),
     Obj(<<"outer">>, <<Obj(<<"inner">>, <<Ref("A")>>)>>),
     Obj(<<"x", "y">>, <<Ref("A"), Ref("A")>>),
     Obj(<<"a", "b">>, <<Arr(<<Ref("A")>>), Obj(<<"c">>, <<Ref("A")>>)>>)}
    \cup {Arr(Repeated(Ref("A"), n)) : n \in 1..MaxRepeat}
----------------------------------------------------------------------------
(* The scope catalog and templates (src/src/auth/scopes.ts) and their
   validation (src/src/auth/scopes.test.ts) *)

\* Object.keys(ALL_SCOPES), in the order of the catalog
ALL_SCOPES ==
    <<"offline_access", "user:read", "account:read", "access:read",
    "access:write", "workers:read", "workers:write", "workers_scripts:write",
    "workers_kv:write", "workers_routes:write", "workers_tail:read",
    "workers_builds:read", "workers_builds:write",
    "workers_observability:read", "workers_observability:write",
    "workers_observability_telemetry:write", "pages:read", "pages:write",
    "d1:write", "ai:read", "ai:write", "aig:read", "aig:write", "agw:read",
    "agw:run", "agw:write", "aiaudit:read", "aiaudit:write", "ai-search:read",
    "ai-search:write", "ai-search:run", "rag:read", "rag:write",
    "dns_records:read", "dns_records:edit", "dns_settings:read",
    "dns_analytics:read", "zone:read", "logpush:read", "logpush:write",
    "auditlogs:read", "ssl_certs:write", "lb:read", "lb:edit",
    "notification:read", "notification:write", "queues:write",
    "pipelines:read", "pipelines:setup", "pipelines:write",
    "r2_catalog:write", "vectorize:write", "query_cache:write",
    "secrets_store:read", "secrets_store:write", "browser:read",
    "browser:write", "containers:write", "constellation:write",
    "cloudchamber:write", "teams:read", "teams:write", "teams:pii",
    "teams:secure_location", "sso-connector:read", "sso-connector:write",
    "connectivity:admin", "connectivity:bind", "connectivity:read",
    "cfone:read", "cfone:write", "dex:read", "dex:write", "url_scanner:read",
    "url_scanner:write", "radar:read", "notebook-examples:read",
    "firstpartytags:write">>

\* The templates with a scope that edits in the read-only one
SCOPE_TEMPLATES_ReadOnlyEdits ==
    <<[key |-> "read-only", scopes |-> DefaultTemplateScopes \o <<"dns_records:edit">>],
      [key |-> "dns-full", scopes |-> REQUIRED_SCOPES \o <<"zone:read">>]>>

\* The scope templates: key and scopes (REQUIRED_SCOPES first in each)
SCOPE_TEMPLATES ==
    <<[key |-> "read-only", scopes |-> DefaultTemplateScopes],
      [key |-> "workers-full",
       scopes |-> REQUIRED_SCOPES \o
           <<"workers:read", "workers:write", "workers_scripts:write",
           "workers_kv:write", "workers_routes:write", "workers_tail:read",
           "workers_builds:read", "workers_builds:write",
           "workers_observability:read", "workers_observability:write",
           "workers_observability_telemetry:write", "logpush:read",
           "logpush:write", "d1:write", "r2_catalog:write", "queues:write",
           "pages:read", "pages:write">>],
      [key |-> "dns-full",
       scopes |-> REQUIRED_SCOPES \o
           <<"zone:read", "dns_records:read", "dns_records:edit",
           "dns_settings:read", "dns_analytics:read">>]>>

DEFAULT_TEMPLATE == "read-only"
\* The scopes registered for the OAuth client (src/src/auth/scopes.test.ts)
REGISTERED_SCOPES ==
    <<"offline_access", "user:read", "account:read", "access:read",
    "access:write", "workers:read", "workers:write", "workers_scripts:write",
    "workers_kv:write", "workers_routes:write", "workers_tail:read",
    "workers_builds:read", "workers_builds:write",
    "workers_observability:read", "workers_observability:write",
    "workers_observability_telemetry:write", "pages:read", "pages:write",
    "d1:write", "ai:read", "ai:write", "aig:read", "aig:write", "agw:read",
    "agw:run", "agw:write", "aiaudit:read", "aiaudit:write", "ai-search:read",
    "ai-search:write", "ai-search:run", "rag:read", "rag:write",
    "dns_records:read", "dns_records:edit", "dns_settings:read",
    "dns_analytics:read", "zone:read", "logpush:read", "logpush:write",
    "auditlogs:read", "ssl_certs:write", "lb:read", "lb:edit",
    "notification:read", "notification:write", "queues:write",
    "pipelines:read", "pipelines:setup", "pipelines:write",
    "r2_catalog:write", "vectorize:write", "query_cache:write",
    "secrets_store:read", "secrets_store:write", "browser:read",
    "browser:write", "containers:write", "constellation:write",
    "cloudchamber:write", "teams:read", "teams:write", "teams:pii",
    "teams:secure_location", "sso-connector:read", "sso-connector:write",
    "connectivity:admin", "connectivity:bind", "connectivity:read",
    "cfone:read", "cfone:write", "dex:read", "dex:write", "url_scanner:read",
    "url_scanner:write", "radar:read", "billing:read", "billing:write",
    "notebook-examples:read", "notebook-managed:read",
    "firstpartytags:write">>

\* new Set(list)
SetOf(list) == {list[i] : i \in 1..Len(list)}

\* The write-oriented suffixes the read-only test filters on
isWriteScope(scope) ==
    \/ endsWith(scope, ":write")
    \/ endsWith(scope, ":edit")
    \/ endsWith(scope, ":admin")
    \/ endsWith(scope, ":pii")

\* A test on its way: the template and the element it is at, and the
\* elements its filter has kept
TestState(pc, template, index, found) ==
    [pc |-> pc, template |-> template, index |-> index, found |-> found]

\* list.filter(...) one element further, and expect(kept).toEqual([]) after
\* the last one
filterStep(state, list, kept) ==
    LET found == IF kept THEN Append(state.found, list[state.index]) ELSE state.found
    IN TestState(IF state.index < Len(list) THEN "run"
                 ELSE IF found = <<>> THEN "passed" ELSE "failed",
                 state.template, state.index + 1, found)

\* 'should only contain scopes that are registered'
OnlyRegisteredStep ==
    /\ call.fn = "only registered"
    /\ outcome.pc = "run"
    /\ outcome' = filterStep(outcome, ALL_SCOPES,
                             ALL_SCOPES[outcome.index] \notin SetOf(REGISTERED_SCOPES))
    /\ UNCHANGED <<call, entryVars, bapVars, oauthVars>>

\* 'should contain all registered scopes'
AllRegisteredStep ==
    /\ call.fn = "all registered"
    /\ outcome.pc = "run"
    /\ outcome' = filterStep(outcome, REGISTERED_SCOPES,
                             REGISTERED_SCOPES[outcome.index] \notin SetOf(ALL_SCOPES))
    /\ UNCHANGED <<call, entryVars, bapVars, oauthVars>>

\* 'all template scopes should be valid (in ALL_SCOPES)' and 'all template
\* scopes should be registered': the expectation in the loops throws at the
\* first scope that is not in the set
TemplateScopeStep ==
    /\ call.fn \in {"templates valid", "templates registered"}
    /\ outcome.pc = "run"
    /\ LET scopes == SCOPE_TEMPLATES[outcome.template].scopes
           scope == scopes[outcome.index]
           known == IF call.fn = "templates valid" THEN SetOf(ALL_SCOPES)
                    ELSE SetOf(REGISTERED_SCOPES)
       IN outcome' =
            IF scope \notin known
            THEN TestState("failed", outcome.template, outcome.index, <<scope>>)
            ELSE IF outcome.index < Len(scopes)
            THEN TestState("run", outcome.template, outcome.index + 1, <<>>)
            ELSE IF outcome.template < Len(SCOPE_TEMPLATES)
            THEN TestState("run", outcome.template + 1, 1, <<>>)
            ELSE TestState("passed", outcome.template, outcome.index, <<>>)
    /\ UNCHANGED <<call, entryVars, bapVars, oauthVars>>

\* SCOPE_TEMPLATES['read-only']
templateOf(key) ==
    SCOPE_TEMPLATES[CHOOSE i \in 1..Len(SCOPE_TEMPLATES) : SCOPE_TEMPLATES[i].key = key]

\* 'read-only template should not contain write scopes'
ReadOnlyStep ==
    /\ call.fn = "read-only has no write scopes"
    /\ outcome.pc = "run"
    /\ LET scopes == templateOf("read-only").scopes
       IN outcome' = filterStep(outcome, scopes, isWriteScope(scopes[outcome.index]))
    /\ UNCHANGED <<call, entryVars, bapVars, oauthVars>>

ScopeTests ==
    {"only registered", "all registered", "templates valid", "templates registered",
     "read-only has no write scopes"}
----------------------------------------------------------------------------
(* Requests the consent routes and the callback route are driven with *)

ClientState == "st1"
ClientRedirectUri == "https://client.example/callback"

\* the token generateCSRFProtection mints, and a text that it did not mint
MintedCsrf == <<"k">>
OtherCsrf == <<"j">>

ReqInfo(clientId) == [clientId |-> clientId, scope |-> DefaultTemplateScopes,
                      state |-> ClientState, responseType |-> "code",
                      redirectUri |-> ClientRedirectUri]

StateBlob(kind, clientId) == [kind |-> kind, oauthReqInfo |-> ReqInfo(clientId)]

StateBlobs(clientIds) ==
    {StateBlob("missing", ""), StateBlob("undecodable", ""), StateBlob("no_info", ""),
     StateBlob("ok", "")} \cup {StateBlob("ok", c) : c \in clientIds}

\* Cookies a client can make up when it has seen the cookie j: nothing, texts
\* of the wrong form, j itself, j with another payload under j's signature,
\* and payloads signed with a key of its own
ForgedPayloads == {JsonArray(<<"c1">>), JsonArray(<<"c1", "c2">>), NotJson}

ApprovedCookies(j) ==
    {None, j, Some(MalformedCookie), Some(BadBase64Cookie)}
    \cup {Some(SignedCookie(signData(AttackerKey, p), p)) : p \in ForgedPayloads}
    \cup (IF j = None THEN {}
          ELSE {Some(SignedCookie(j[1].sig, p)) : p \in ForgedPayloads})

GetRequest(fromBrowser, clientId, approved) ==
    [fromBrowser |-> fromBrowser, clientId |-> clientId, state |-> ClientState,
     responseType |-> "code", redirectUri |-> ClientRedirectUri, approved |-> approved]

ConsentGetRequests ==
    {GetRequest(TRUE, c, jar.approved) : c \in {"", "c1", "c2"}}
    \cup {GetRequest(FALSE, "c1", a) : a \in ApprovedCookies(jar.approved)}

\* A consent submission; its scope_template field is absent unless set
PostRequest(fromBrowser, csrfForm, csrfCookie, approved, state, scopes) ==
    [fromBrowser |-> fromBrowser, csrfForm |-> csrfForm, csrfCookie |-> csrfCookie,
     approved |-> approved, state |-> state, scopes |-> scopes, template |-> None]

WithTemplate(req, template) == [req EXCEPT !.template = template]

CsrfFields == {None, Some(<<>>), Some(MintedCsrf), Some(OtherCsrf)}

ConsentPostRequests ==
    \* the browser submits a form, its own or one planted by another site
    {PostRequest(TRUE, f, jar.csrf, jar.approved, s, <<>>) :
        f \in CsrfFields, s \in StateBlobs({"c1", "c2"})}
    \* any other client, with cookies of its own making
    \cup {PostRequest(FALSE, f, c, None, StateBlob("ok", "c1"), <<>>) :
            f \in CsrfFields, c \in {None, Some(MintedCsrf)}}
    \cup {PostRequest(FALSE, Some(OtherCsrf), Some(OtherCsrf), a, StateBlob("ok", c), <<>>) :
            a \in ApprovedCookies(jar.approved), c \in {"c1", "c2"}}

\* A consent for a client with one scope ticked, and one whose request
\* info carries a client id that is not a string
CallbackPostRequests ==
    {PostRequest(FALSE, Some(MintedCsrf), Some(MintedCsrf), None,
                 StateBlob("ok", "c1"), <<"workers:read">>),
     PostRequest(FALSE, Some(MintedCsrf), Some(MintedCsrf), None,
                 StateBlob("ok", "#5"), <<>>)}

AuthCode == <<"c">>

CbRequest(code, kind, stateToken, cookie) ==
    [code |-> code, state |-> [kind |-> kind, token |-> stateToken], cookie |-> cookie]

\* A callback without a code, without a state, with a state that does not
\* decode, and with every token under every kind of session cookie
CallbackRequests ==
    {CbRequest(None, "ok", 1, Some(Sha256Hex(1))),
     CbRequest(Some(AuthCode), "missing", 0, None),
     CbRequest(Some(AuthCode), "undecodable", 0, None)}
    \cup UNION {{CbRequest(Some(AuthCode), "ok", t, c) :
                    c \in {None, Some(EmptyText), Some(Sha256Hex(t)),
                           Some(Sha256Hex((t % MaxStates) + 1))}} :
                 t \in Tokens}

IdentityUpstreams ==
    {[user |-> [kind |-> "ok", result |-> Some([id |-> "u1", email |-> "e1"])],
      accounts |-> [kind |-> "ok", result |-> <<Account(1)>>]],
     [user |-> [kind |-> "success_false", result |-> None],
      accounts |-> [kind |-> "ok", result |-> <<Account(1)>>]],
     [user |-> [kind |-> "network_error", result |-> None],
      accounts |-> [kind |-> "ok", result |-> <<>>]]}
----------------------------------------------------------------------------
(* Specifications *)

EntryIdle ==
    /\ request = [authorization |-> None, xAuthEmail |-> None, xAuthKey |-> None]
    /\ upstream = [user |-> [kind |-> "no_result", result |-> None],
                   accounts |-> [kind |-> "no_result", result |-> <<>>]]
    /\ response = NoResponse
    /\ epc = "idle"

CallIdle ==
    /\ call = [fn |-> "none"]
    /\ outcome = [pc |-> "idle"]

OAuthIdle ==
    /\ kv = [t \in Tokens |-> NoEntry]
    /\ nextToken = 0
    /\ jar = EmptyJar
    /\ inflight = {}
    /\ last = NoLast
    /\ cb = [p \in Procs |-> IdleCb]

InitEntry ==
    /\ request \in Requests
    /\ upstream \in Upstreams
    /\ response = NoResponse
    /\ epc = "start"
    /\ bapArgs = BapIdle
    /\ bapResult = [type |-> "idle"]
    /\ CallIdle
    /\ OAuthIdle

NextEntry == fetch

SpecEntry == InitEntry /\ [][NextEntry]_vars

InitBuild ==
    /\ EntryIdle
    /\ bapArgs \in BapArgSets
    /\ bapResult = NoProps
    /\ CallIdle
    /\ OAuthIdle

NextBuild == CallBuildAuthProps

SpecBuild == InitBuild /\ [][NextBuild]_vars

\* The consent routes under every request, and the browser
\* The browser may hold an approved-clients cookie from earlier consents
\* (it lives for a year, the stored states for 600 seconds)
IssuedCookies ==
    {Some(SignedCookie(signData(CookieSecret, JsonArray(l)), JsonArray(l))) :
        l \in DistinctSeqs({"c1", "c2"}) \ {<<>>}}

InitConsent ==
    /\ EntryIdle
    /\ bapArgs = BapIdle
    /\ bapResult = [type |-> "idle"]
    /\ CallIdle
    /\ kv = [t \in Tokens |-> NoEntry]
    /\ nextToken = 0
    /\ jar \in {[EmptyJar EXCEPT !.approved = a] : a \in {None} \cup IssuedCookies}
    /\ inflight = {}
    /\ last = NoLast
    /\ cb = [p \in Procs |-> IdleCb]

NextConsent ==
    \/ \E req \in ConsentGetRequests : GetAuthorize(req, MintedCsrf) /\ UNCHANGED otherVars
    \/ \E req \in ConsentPostRequests : PostAuthorize(req) /\ UNCHANGED otherVars
    \/ \E u \in inflight : BrowserApply(u) /\ UNCHANGED otherVars

SpecConsent == InitConsent /\ [][NextConsent]_vars

\* Consent submissions that store a state, and concurrent callbacks
InitCallback ==
    /\ EntryIdle
    /\ bapArgs = BapIdle
    /\ bapResult = [type |-> "idle"]
    /\ CallIdle
    /\ OAuthIdle

NextCallback ==
    \/ \E req \in CallbackPostRequests : PostAuthorize(req) /\ UNCHANGED otherVars
    \/ \E t \in Tokens : KvExpire(t) /\ UNCHANGED otherVars
    \/ \E p \in Procs, req \in CallbackRequests : CallbackArrive(p, req) /\ UNCHANGED otherVars
    \/ \E p \in Procs : CallbackKvDelete(p) /\ UNCHANGED otherVars
    \/ \E p \in Procs, ok \in BOOLEAN : CallbackExchange(p, ok) /\ UNCHANGED otherVars
    \/ \E p \in Procs, up \in IdentityUpstreams : CallbackIdentity(p, up) /\ UNCHANGED otherVars
    \/ \E p \in Procs : CallbackComplete(p) /\ UNCHANGED otherVars

SpecCallback == InitCallback /\ [][NextCallback]_vars

\* One browser that asks for consent and submits the consent form for two
\* clients, in any order and without waiting for the earlier response
ApprovalGetRequests == {GetRequest(TRUE, c, jar.approved) : c \in {"c1", "c2"}}

ApprovalPostRequests ==
    {PostRequest(TRUE, Some(MintedCsrf), jar.csrf, jar.approved, StateBlob("ok", c),
                 <<"workers:read">>) : c \in {"c1", "c2"}}

InitApproval ==
    /\ EntryIdle
    /\ bapArgs = BapIdle
    /\ bapResult = [type |-> "idle"]
    /\ CallIdle
    /\ OAuthIdle

NextApproval ==
    \/ \E req \in ApprovalGetRequests : GetAuthorize(req, MintedCsrf) /\ UNCHANGED otherVars
    \/ \E req \in ApprovalPostRequests : PostAuthorize(req) /\ UNCHANGED otherVars
    \/ \E u \in inflight : BrowserApply(u) /\ UNCHANGED otherVars

SpecApproval == InitApproval /\ [][NextApproval]_vars

\* Authorization attempts with every kind of scope selection: no checkbox,
\* a few checkboxes, and lists around the cap, under every scope_template
MaxExtraScopes == 2    \* checkbox values submitted beyond MAX_SCOPES

Checkboxes(n) == [i \in 1..n |-> "scope" \o ToString(i)]

CheckboxLists ==
    {<<>>, <<"workers:read">>, <<"dns_records:edit", "workers:read">>}
    \cup {Checkboxes(n) : n \in (MAX_SCOPES - 1)..(MAX_SCOPES + MaxExtraScopes)}

TemplateFields == {None, Some("read-only"), Some("workers-full"), Some("no-such-template")}

ScopePostRequests ==
    {WithTemplate(PostRequest(FALSE, Some(MintedCsrf), Some(MintedCsrf), None,
                              StateBlob("ok", "c1"), l), t) :
        l \in CheckboxLists, t \in TemplateFields}

ScopeGetRequests ==
    {GetRequest(FALSE, "c1", a) :
        a \in {None, Some(SignedCookie(signData(CookieSecret, JsonArray(<<"c1">>)),
                                       JsonArray(<<"c1">>)))}}

InitScopes ==
    /\ EntryIdle
    /\ bapArgs = BapIdle
    /\ bapResult = [type |-> "idle"]
    /\ CallIdle
    /\ OAuthIdle

NextScopes ==
    \/ \E req \in ScopeGetRequests : GetAuthorize(req, MintedCsrf) /\ UNCHANGED otherVars
    \/ \E req \in ScopePostRequests : PostAuthorize(req) /\ UNCHANGED otherVars

SpecScopes == InitScopes /\ [][NextScopes]_vars

\* The executors under every submitted code and upstream answer
InitExecutor ==
    /\ EntryIdle
    /\ bapArgs = BapIdle
    /\ bapResult = [type |-> "idle"]
    /\ OAuthIdle
    /\ call \in ExecutorCalls
    /\ outcome = ExecState("start", None, NoRun, NoEvaluate, NoFinal)

NextExecutor ==
    \/ CreateUnit
    \/ Evaluate
    \/ ExecutorReturn

SpecExecutor == InitExecutor /\ [][NextExecutor]_vars

\* The token exchange callback under every grant type, stored props and
\* upstream answer
InitExchange ==
    /\ EntryIdle
    /\ bapArgs = BapIdle
    /\ bapResult = [type |-> "idle"]
    /\ OAuthIdle
    /\ call \in ExchangeCalls
    /\ outcome = ExchangeState("start", "none", NoNewProps, 0, FALSE, "")

NextExchange ==
    \/ TokenExchangeStart
    \/ TokenExchangeRefreshed

SpecExchange == InitExchange /\ [][NextExchange]_vars

\* truncateResponse under every content
InitTruncate ==
    /\ EntryIdle
    /\ bapArgs = BapIdle
    /\ bapResult = [type |-> "idle"]
    /\ OAuthIdle
    /\ call \in {[fn |-> "truncateResponse", content |-> c] : c \in Contents}
    /\ outcome = [pc |-> "start", returned |-> Truncated(<<>>, NoBlock)]

NextTruncate == CallTruncateResponse

SpecTruncate == InitTruncate /\ [][NextTruncate]_vars

\* resolveRefs under every fragment and spec
InitResolve ==
    /\ EntryIdle
    /\ bapArgs = BapIdle
    /\ bapResult = [type |-> "idle"]
    /\ OAuthIdle
    /\ call \in {[fn |-> "resolveRefs", obj |-> o, spec |-> s] :
                    o \in RefFragments, s \in RefSpecs}
    /\ outcome = [pc |-> "start", returned |-> UndefinedNode]

NextResolve == CallResolveRefs

SpecResolve == InitResolve /\ [][NextResolve]_vars

\* The validation of the scope catalog and the templates
InitCatalog ==
    /\ EntryIdle
    /\ bapArgs = BapIdle
    /\ bapResult = [type |-> "idle"]
    /\ OAuthIdle
    /\ call \in {[fn |-> t] : t \in ScopeTests}
    /\ outcome = TestState("run", 1, 1, <<>>)

NextCatalog ==
    \/ OnlyRegisteredStep
    \/ AllRegisteredStep
    \/ TemplateScopeStep
    \/ ReadOnlyStep

SpecCatalog == InitCatalog /\ [][NextCatalog]_vars

\* Honest authorization attempts in one browser: it asks for consent, submits
\* the form it was shown, follows the redirect and comes back once to
\* /oauth/callback with the state and the session cookie it was handed, before
\* the stored state expires; upstream the token exchange succeeds and the
\* identity lookup resolves a user
HonestGetRequests == {GetRequest(TRUE, c, jar.approved) : c \in {"c1", "c2"}}

HonestPostRequests ==
    {PostRequest(TRUE, Some(MintedCsrf), jar.csrf, jar.approved, StateBlob("ok", "c2"),
                 <<"workers:read">>)}

\* The callback the browser makes for a correlation token: the cookie is the
\* session cookie of its jar
HonestCallbackRequests ==
    {CbRequest(Some(AuthCode), "ok", t, jar.session) :
        t \in {s \in Tokens : /\ kv[s].present
                              /\ jar.session = Some(Sha256Hex(s))
                              /\ \A q \in Procs : cb[q].pc # "idle" =>
                                                     cb[q].req.state.token # s}}

HonestUpstreams ==
    {[user |-> [kind |-> "ok", result |-> Some([id |-> "u1", email |-> "e1"])],
      accounts |-> [kind |-> "ok", result |-> <<Account(1)>>]],
     [user |-> [kind |-> "ok", result |-> Some([id |-> "u1", email |-> "e1"])],
      accounts |-> [kind |-> "success_false", result |-> <<>>]]}

InitHonest ==
    /\ EntryIdle
    /\ bapArgs = BapIdle
    /\ bapResult = [type |-> "idle"]
    /\ CallIdle
    /\ kv = [t \in Tokens |-> NoEntry]
    /\ nextToken = 0
    /\ jar \in {[EmptyJar EXCEPT !.approved = a] :
                   a \in {None, Some(SignedCookie(signData(CookieSecret, JsonArray(<<"c1">>)),
                                                  JsonArray(<<"c1">>)))}}
    /\ inflight = {}
    /\ last = NoLast
    /\ cb = [p \in Procs |-> IdleCb]

HonestExchange(p) == CallbackExchange(p, TRUE) /\ UNCHANGED otherVars
HonestIdentity(p) ==
    \E up \in HonestUpstreams : CallbackIdentity(p, up) /\ UNCHANGED otherVars

NextHonest ==
    \/ \E req \in HonestGetRequests : GetAuthorize(req, MintedCsrf) /\ UNCHANGED otherVars
    \/ \E req \in HonestPostRequests : PostAuthorize(req) /\ UNCHANGED otherVars
    \/ \E u \in inflight : BrowserApply(u) /\ UNCHANGED otherVars
    \/ \E p \in Procs, req \in HonestCallbackRequests :
          CallbackArrive(p, req) /\ UNCHANGED otherVars
    \/ \E p \in Procs : CallbackKvDelete(p) /\ UNCHANGED otherVars
    \/ \E p \in Procs : HonestExchange(p)
    \/ \E p \in Procs : HonestIdentity(p)
    \/ \E p \in Procs : CallbackComplete(p) /\ UNCHANGED otherVars

\* A callback that the worker has begun to handle runs to its response
HandlerRuns ==
    \A p \in Procs :
        /\ WF_vars(CallbackKvDelete(p) /\ UNCHANGED otherVars)
        /\ WF_vars(HonestExchange(p))
        /\ WF_vars(HonestIdentity(p))
        /\ WF_vars(CallbackComplete(p) /\ UNCHANGED otherVars)

SpecHonest == InitHonest /\ [][NextHonest]_vars /\ HandlerRuns

----------------------------------------------------------------------------
(* Claims about the credential dispatcher *)

ColonCount(t) == Cardinality({i \in 1..Len(t) : t[i] = ":"})

\* C1: a request carrying both X-Auth-Email and X-Auth-Key is resolved through
\* the Global API Key path, ending in an MCP response built from a
\* global_api_key bundle or in a 401, and is never classified as a direct
\* token or handed to the OAuth provider.
C1_GlobalApiKeyWins ==
    (epc = "done" /\ isGlobalApiKey(request)) =>
        /\ response = handleGlobalApiKeyRequest(request, upstream)
        /\ response.path = "global_api_key"
        /\ \/ response.kind = "mcp" /\ response.props.type = "global_api_key"
           \/ response.kind = "http" /\ response.status = 401

\* C2: a request is classified as a direct API token exactly when its
\* Authorization header starts with "Bearer " and the text after it does not
\* split on ":" into exactly 3 segments (that is, does not hold 2 colons).
C2_DirectTokenClassification ==
    epc = "done" =>
        LET h == request.authorization
            bearer == h # None /\ Len(h[1]) >= 7 /\ SubSeq(h[1], 1, 7) = BearerPrefix
            direct == response.path = "direct_token"
        IN  /\ ~bearer => ~direct
            /\ bearer => (direct <=> ColonCount(SubSeq(h[1], 8, Len(h[1]))) # 2)

C2_Witness ==
    /\ epc = "done"
    /\ request.authorization = Some(BearerPrefix \o <<"a", ":", ":", "a">>)
    /\ response.path = "oauth"

\* C3: for a request classified as a direct token, handleApiTokenRequest never
\* falls through to OAuth and ends in exactly one of: a user_token MCP response
\* when the lookup resolves a user; an account_token MCP response for the single
\* accessible account when no user resolves; 400 when no user resolves and more
\* than one account is accessible; 401 when the lookup resolves nothing or throws.
C3_DirectTokenOutcomes ==
    (epc = "done" /\ isDirectApiToken(request)) =>
        LET r == getUserAndAccounts(upstream)
            token == extractBearerToken(request)[1]
        IN  /\ response.kind \in {"mcp", "http"}
            /\ response.path = "direct_token"
            /\ (~r.threw /\ r.user # None) =>
                   /\ response.kind = "mcp"
                   /\ response.props.type = "user_token"
                   /\ response.props.user = r.user[1]
                   /\ response.props.accessToken = token
                   /\ response.accountId = None
            /\ (~r.threw /\ r.user = None /\ Len(r.accounts) = 1) =>
                   /\ response.kind = "mcp"
                   /\ response.props.type = "account_token"
                   /\ response.props.account = r.accounts[1]
                   /\ response.accountId = Some(r.accounts[1].id)
            /\ (~r.threw /\ r.user = None /\ Len(r.accounts) > 1) =>
                   response.kind = "http" /\ response.status = 400
            /\ (r.threw \/ (r.user = None /\ Len(r.accounts) = 0)) =>
                   response.kind = "http" /\ response.status = 401

C3_Witness ==
    /\ epc = "done"
    /\ isDirectApiToken(request)
    /\ upstream.user.kind = "success_false"
    /\ upstream.accounts.kind = "ok"
    /\ Len(upstream.accounts.result) > 1
    /\ response.status = 400

\* C4: buildAuthProps gives a user_token bundle with the token, the user and
\* the accounts (empty when omitted) when a user is supplied; an account_token
\* bundle with the token and the first account when there is no user and at
\* least one account; and throws when there is neither.
C4_BuildAuthProps ==
    bapResult # NoProps =>
        /\ bapArgs.user # None =>
              bapResult = [type |-> "user_token", accessToken |-> bapArgs.token,
                           user |-> bapArgs.user[1],
                           accounts |-> IF bapArgs.accounts = None THEN <<>>
                                        ELSE bapArgs.accounts[1]]
        /\ (bapArgs.user = None /\ bapArgs.accounts # None
              /\ Len(bapArgs.accounts[1]) >= 1) =>
              bapResult = [type |-> "account_token", accessToken |-> bapArgs.token,
                           account |-> Head(bapArgs.accounts[1])]
        /\ (bapArgs.user = None
              /\ (bapArgs.accounts = None \/ bapArgs.accounts[1] = <<>>)) =>
              /\ bapResult.type = "threw"
              /\ bapResult.message =
                    "Cannot build auth props: no user or account information"

C4_Witness ==
    /\ bapResult # NoProps
    /\ bapArgs.user = None
    /\ bapArgs.accounts # None
    /\ Len(bapArgs.accounts[1]) = 2
    /\ bapResult.type = "account_token"

----------------------------------------------------------------------------
(* Claims about the consent flow *)

\* The CSRF token of a consent submission is missing, or there is no CSRF
\* cookie, or the two differ
CsrfFails(req) ==
    req.csrfForm = None \/ req.csrfCookie = None \/ req.csrfForm # req.csrfCookie

\* C5: a POST /authorize whose csrf_token field is missing, or differs from the
\* CSRF cookie, or comes without a CSRF cookie, fails whatever the state blob
\* holds: the response is an error page without an approved-clients cookie and
\* without a redirect, and the handler writes no Pending Authorization State.
C5_CsrfMismatchFails ==
    /\ [](last.route = "POST" /\ CsrfFails(last.req) =>
            /\ last.resp.kind = "error"
            /\ last.resp.setApproved = None
            /\ last.resp.setSession = None
            /\ last.resp.location = None)
    /\ [][(last' # last /\ last'.route = "POST" /\ CsrfFails(last'.req)) =>
            (kv' = kv /\ nextToken' = nextToken /\ inflight' = inflight)]_vars

C5_Witness ==
    /\ last.route = "POST"
    /\ last.req.csrfForm = Some(OtherCsrf)
    /\ last.req.csrfCookie = Some(MintedCsrf)
    /\ last.req.state.kind = "ok"
    /\ last.req.state.oauthReqInfo.clientId = "c1"
    /\ last.resp.kind = "error"

\* The cookie is of the form signature.payload, the signature is the HMAC of
\* the payload under the cookie secret and the payload is a JSON array of strings
ValidApprovedCookie(cookie) ==
    /\ cookie # None
    /\ cookie[1].form = "signed"
    /\ cookie[1].sig = [key |-> CookieSecret, data |-> cookie[1].payload]
    /\ cookie[1].payload.kind = "array"
    /\ \A i \in 1..Len(cookie[1].payload.items) : cookie[1].payload.items[i] # "#5"

\* GET /authorize redirects upstream without consent only when the request
\* carries a valid approved-clients cookie that lists the client id
C9_AutoRedirectOnlyWhenApproved ==
    (last.route = "GET" /\ last.resp.kind = "redirect") =>
        /\ ValidApprovedCookie(last.req.approved)
        /\ \E i \in 1..Len(last.req.approved[1].payload.items) :
              last.req.approved[1].payload.items[i] = last.req.clientId

\* C9: GET /authorize skips the consent screen for a client id only when the
\* request carries a valid signed approved-clients cookie listing that client
\* id; a cookie that was altered, is malformed or is missing is treated as
\* absent (the consent screen is shown, as without a cookie) and never leads
\* to AUTO_REDIRECT.
C9_TamperedCookieIsAbsent ==
    /\ C9_AutoRedirectOnlyWhenApproved
    /\ (last.route = "GET" /\ last.req.clientId # ""
          /\ ~ValidApprovedCookie(last.req.approved)) =>
            last.resp.kind = "consent"

\* C10: a successful consent submission for client c carrying a valid
\* approved-clients cookie with record S issues a validly signed cookie whose
\* record is S followed by c when c is not in S, and S itself when c is in S:
\* the union of S and {c}, without duplicates.
C10_ApprovedClientsUnion ==
    (last.route = "POST" /\ last.resp.kind = "redirect"
        /\ ValidApprovedCookie(last.req.approved)) =>
        LET S == last.req.approved[1].payload.items
            c == last.req.state.oauthReqInfo.clientId
            new == last.resp.setApproved
            R == new[1].payload.items
        IN  /\ ValidApprovedCookie(new)
            /\ {R[i] : i \in 1..Len(R)} = {S[i] : i \in 1..Len(S)} \cup {c}
            /\ \A i, j \in 1..Len(R) : i # j => R[i] # R[j]
            /\ (\E i \in 1..Len(S) : S[i] = c) => R = S
            /\ SubSeq(R, 1, Len(S)) = S

C10_Witness ==
    /\ last.route = "POST"
    /\ last.resp.kind = "redirect"
    /\ ValidApprovedCookie(last.req.approved)
    /\ last.req.fromBrowser
    /\ last.req.approved[1].payload.items = <<"c2", "c1">>
    /\ last.req.state.oauthReqInfo.clientId = "c2"
    /\ last.resp.setApproved = last.req.approved

----------------------------------------------------------------------------
(* Claims about concurrent consent submissions *)

\* the clients listed in the browser's approved-clients cookie
ApprovedRecord ==
    LET r == getApprovedClientsFromCookie(jar.approved, CookieSecret)
    IN  IF r.threw \/ r.clients = None THEN {}
        ELSE {r.clients[1][i] : i \in 1..Len(r.clients[1])}

\* the clients a consent submission of the browser was accepted for: each
\* accepted submission stored one Pending Authorization State
ConsentedClients ==
    {kv[t].oauthReqInfo.clientId : t \in {u \in Tokens : kv[u].present}}

\* C11: when consent submissions of one browser for clients c1 and c2 were
\* both accepted, in whatever interleaving, and every response has been
\* applied to the browser's cookie jar, the approved-clients record lists
\* both c1 and c2: no approval is lost.
C11_NoApprovalLost ==
    (inflight = {} /\ {"c1", "c2"} \subseteq ConsentedClients) =>
        {"c1", "c2"} \subseteq ApprovedRecord

----------------------------------------------------------------------------
(* Claims about the scope selection *)

\* the last request was a consent submission that was redirected upstream
ConsentRedirected == last.route = "POST" /\ last.resp.kind = "redirect"

\* the first n elements of a list, or all of it when it is shorter
FirstOf(list, n) == [i \in 1..(IF Len(list) < n THEN Len(list) ELSE n) |-> list[i]]

\* with at least one checkbox the scopes requested upstream are the checkbox
\* values up to the cap, whatever scope_template says
C12_CheckboxesAreAuthoritative ==
    (ConsentRedirected /\ Len(last.req.scopes) > 0) =>
        last.resp.location[1].scopes = FirstOf(last.req.scopes, MAX_SCOPES)

\* C12: on a consent submission that passed the CSRF check the scopes
\* requested upstream are the submitted checkbox values (up to the cap)
\* when at least one checkbox was submitted, whatever scope_template says,
\* and the default template's scopes when no checkbox was submitted.
C12_ScopeSelection ==
    ConsentRedirected =>
        last.resp.location[1].scopes =
            IF Len(last.req.scopes) > 0
            THEN FirstOf(last.req.scopes, MAX_SCOPES)
            ELSE DefaultTemplateScopes

\* C13: the scope list of every upstream redirect and of every stored
\* Pending Authorization State has at most MAX_SCOPES entries, and a consent
\* submission with more than MAX_SCOPES checkbox values is redirected with
\* exactly the first MAX_SCOPES of them, in submission order.
C13_ScopeCap ==
    /\ \A t \in Tokens : kv[t].present => Len(kv[t].oauthReqInfo.scope) <= MAX_SCOPES
    /\ (last.route # "none" /\ last.resp.kind = "redirect") =>
           Len(last.resp.location[1].scopes) <= MAX_SCOPES
    /\ (ConsentRedirected /\ Len(last.req.scopes) > MAX_SCOPES) =>
           /\ last.resp.location[1].scopes = FirstOf(last.req.scopes, MAX_SCOPES)
           /\ \E t \in Tokens :
                 /\ last.resp.location[1].state.state = t
                 /\ kv[t].oauthReqInfo.scope = FirstOf(last.req.scopes, MAX_SCOPES)

C13_Witness ==
    /\ ConsentRedirected
    /\ Len(last.req.scopes) = MAX_SCOPES + 1
    /\ Len(last.resp.location[1].scopes) = MAX_SCOPES
    /\ last.req.scopes[MAX_SCOPES + 1] = "scope77"

----------------------------------------------------------------------------
(* Claims about the executors *)

\* the unit has run the submitted code
CodeRan == outcome.pc \in {"evaluated", "done"}

\* an execute call whose code awaits one request() and does not catch
RequestRan ==
    CodeRan /\ call.fn = "execute" /\ call.code.kind = "request" /\ ~call.code.catches

\* C14: whenever the submitted code throws, whatever the thrown value and
\* its message, evaluate returns a {result, err, stack} record instead of
\* throwing and the executor, execute and search alike, rejects with a plain
\* Error; the executor resolves only when the code completed without throwing.
C14_ThrowBecomesPlainError ==
    /\ (CodeRan /\ outcome.run.threw) => ~outcome.response.threw
    /\ (outcome.pc = "done" /\ outcome.run.threw) =>
           /\ outcome.final.kind = "rejected"
           /\ outcome.final.error.type = "Error"
    /\ (outcome.pc = "done" /\ outcome.final.kind = "resolved") => ~outcome.run.threw

\* the paths request() is to treat as GraphQL
GraphQLPaths ==
    {<<"/", "graphql">>, <<"/", "graphql", "/">>, <<"/", "client", "/", "graphql", "?", "q">>}

JsonAnswer == call.response.contentType # <<>> /\ call.response.contentType[1] = "application/json"

\* C15: on a JSON answer from a GraphQL path, data present with errors
\* absent, null, not an array or empty gives success = true, result = data,
\* errors = [] and messages = []; data present with a non-empty errors array
\* gives success = false, result = data, one mapped entry per upstream error
\* and exactly one synthetic message; a non-empty errors array with data
\* null or undefined throws.
C15_GraphQLNormalization ==
    (RequestRan /\ JsonAnswer /\ call.code.options.path \in GraphQLPaths) =>
        LET data == call.response.json.data
            errors == call.response.json.errors
            hasData == data.kind = "value"
            hasErrors == errors.kind = "array" /\ Len(errors.items) > 0
            env == outcome.run.result.envelope
        IN  /\ (hasData /\ ~hasErrors) =>
                   /\ ~outcome.run.threw
                   /\ env.success /\ env.result = data
                   /\ env.errors = Some(<<>>) /\ env.messages = Some(<<>>)
            /\ (hasData /\ hasErrors) =>
                   /\ ~outcome.run.threw
                   /\ ~env.success /\ env.result = data
                   /\ Len(env.errors[1]) = Len(errors.items)
                   /\ \A i \in 1..Len(errors.items) :
                         /\ env.errors[1][i].message[1] = errors.items[i].message
                         /\ env.errors[1][i].code =
                               IF errors.items[i].code = None THEN "0"
                               ELSE errors.items[i].code[1]
                   /\ Len(env.messages[1]) = 1
                   /\ env.messages[1][1].code = "0"
            /\ (~hasData /\ hasErrors) =>
                   /\ outcome.run.threw
                   /\ outcome.run.thrown.type = "Error"

C15_Witness ==
    /\ RequestRan /\ JsonAnswer /\ outcome.pc = "done"
    /\ call.code.options.path = <<"/", "client", "/", "graphql", "?", "q">>
    /\ call.response.json.data.kind = "value"
    /\ call.response.json.errors.kind = "array"
    /\ Len(call.response.json.errors.items) = 2
    /\ outcome.final.kind = "resolved"
    /\ ~outcome.final.result.envelope.success
    /\ outcome.final.result.envelope.result = call.response.json.data

\* C16: an answer that is not 2xx, or whose envelope says success: false,
\* never comes back from request() as a return value on any branch: request()
\* throws, and the execute call fails as an Error unless the code catches.
C16_UpstreamErrorsThrow ==
    (RequestRan /\ (~responseOk(call.response)
                    \/ (JsonAnswer /\ call.response.json.success = "false"))) =>
        /\ outcome.run.threw
        /\ outcome.pc = "done" => outcome.final.kind = "rejected"

\* C17: request() sends JSON.stringify(body) exactly when a body is given,
\* rawBody is not set and no content type is given, and sends the body as
\* supplied when rawBody is set or a content type is given.
C17_BodySerialization ==
    (CodeRan /\ call.fn = "execute" /\ call.code.kind = "request") =>
        LET o == call.code.options
            sent == outcome.run.sent[1].body
        IN  /\ (sent = JSONstringify(o.body)) <=>
                   (TruthyValue(o.body) /\ ~o.rawBody /\ ~Truthy(o.contentType))
            /\ (TruthyValue(o.body) /\ (o.rawBody \/ Truthy(o.contentType))) =>
                   sent = o.body

\* the URLs whose destination is the host h
UrlsOfHost(h) ==
    {UrlText(u, h, p, <<"/", "x">>) :
        u \in {None, Some("api.cloudflare.com")}, p \in {None, Some("443")}}

\* C18: an execute unit is built with the GlobalOutbound gate, which forwards
\* a fetch if and only if the hostname of its URL is in ALLOWED_HOSTNAMES and
\* answers every other fetch with 403 without forwarding it; a search unit is
\* built with no outbound at all; so no fetch of a unit reaches another host.
C18_OutboundGate ==
    /\ outcome.pc \in {"loaded", "evaluated"} =>
           outcome.globalOutbound =
               IF call.fn = "execute" THEN Some("GLOBAL_OUTBOUND") ELSE None
    /\ (CodeRan /\ call.code.kind = "fetch") =>
           LET f == outcome.run.fetched[1]
               allowed == call.code.url \in UrlsOfHost("api.cloudflare.com")
           IN  /\ call.fn = "execute" =>
                      /\ f.forwarded <=> allowed
                      /\ ~allowed => f.status = 403
               /\ call.fn = "search" => ~f.forwarded
    /\ (CodeRan /\ outcome.run.fetched # None /\ outcome.run.fetched[1].forwarded) =>
           outcome.run.fetched[1].host = "api.cloudflare.com"

C18_Witness ==
    /\ outcome.pc = "done"
    /\ call.fn = "execute"
    /\ call.code.kind = "fetch"
    /\ call.code.url = UrlText(Some("api.cloudflare.com"), "api.cloudflare.com.evil.com",
                               None, <<"/", "x">>)
    /\ outcome.run.fetched[1].status = 403
    /\ ~outcome.run.fetched[1].forwarded

----------------------------------------------------------------------------
(* Claims about truncateResponse *)

\* the text truncateResponse works on: a string itself, any other value's
\* JSON.stringify(value, null, 2)
TextOf(content) == IF content.type = "string" THEN content.text ELSE content.json

\* C19: truncateResponse returns the text of the content verbatim when it has
\* at most 24000 characters (6000 tokens of 4 characters), the empty string
\* and a text of exactly 24000 characters included; a longer text gives its
\* first 24000 characters followed by a '--- TRUNCATED ---' block reporting
\* the approximate token count and the limit of 6,000.
C19_TruncateResponse ==
    outcome.pc = "done" =>
        LET text == TextOf(call.content)
            r == outcome.returned
        IN  /\ textLength(text) <= 24000 => (r.text = text /\ r.block = NoBlock)
            /\ textLength(text) > 24000 =>
                   /\ textLength(r.text) = 24000
                   /\ r.text = sliceText(text, 24000)
                   /\ r.block.marker = "--- TRUNCATED ---"
                   /\ r.block.tokens * 4 >= textLength(text)
                   /\ (r.block.tokens - 1) * 4 < textLength(text)
                   /\ r.block.limit = "6,000"

C19_Witness ==
    /\ outcome.pc = "done"
    /\ call.content.type = "string"
    /\ call.content.text = <<Run("x", 23999), Run("y", 1)>>
    /\ outcome.returned = Truncated(call.content.text, NoBlock)

----------------------------------------------------------------------------
(* Claims about the token exchange callback *)

\* the stored props are a user_token bundle that carries a refresh token
UserTokenWithRefresh(props) ==
    /\ props.type = "user_token"
    /\ props.accessToken # None /\ props.user # None /\ props.accounts # None
    /\ props.refreshToken # None /\ props.refreshToken[1] # <<>>

\* the stored props are a bundle of one of the three variants
KnownBundle(props) ==
    \/ props.type = "account_token" /\ props.accessToken # None /\ props.account # None
    \/ props.type = "user_token" /\ props.accessToken # None /\ props.user # None
          /\ props.accounts # None
    \/ props.type = "global_api_key" /\ props.email # None /\ props.apiKey # None
          /\ props.user # None /\ props.accounts # None

\* C20: handleTokenExchangeCallback returns new props only for grant type
\* refresh_token with stored props that validate as a user_token bundle with
\* a refresh token; for another grant type, another bundle variant or a
\* missing refresh token it returns undefined without calling the upstream
\* token endpoint; on success newProps equals the stored props in every field
\* except accessToken and refreshToken, which are the upstream's, and
\* accessTokenTTL is the upstream expires_in.
C20_TokenExchangeCallback ==
    outcome.pc = "done" =>
        /\ outcome.kind = "result" =>
               /\ call.grantType = "refresh_token"
               /\ UserTokenWithRefresh(call.props)
               /\ [outcome.newProps EXCEPT !.accessToken = call.props.accessToken,
                                           !.refreshToken = call.props.refreshToken]
                     = call.props
               /\ outcome.newProps.accessToken = Some(call.answer.access_token)
               /\ outcome.newProps.refreshToken = Some(call.answer.refresh_token)
               /\ outcome.accessTokenTTL = call.answer.expires_in
        /\ (\/ call.grantType # "refresh_token"
            \/ (KnownBundle(call.props) /\ ~UserTokenWithRefresh(call.props))) =>
               /\ outcome.kind = "undefined"
               /\ ~outcome.upstreamCalled

C20_Witness ==
    /\ outcome.pc = "done"
    /\ outcome.kind = "result"
    /\ call.props.refreshToken = Some(<<"r0">>)
    /\ Len(call.props.accounts[1]) = 2
    /\ outcome.newProps.user = call.props.user
    /\ outcome.newProps.accounts = call.props.accounts
    /\ outcome.newProps.accessToken = Some(<<"a1">>)
    /\ outcome.accessTokenTTL = 3600

----------------------------------------------------------------------------
(* Claims about the callback *)

\* the session cookie of the callback is the SHA-256 of the token in its state
SessionBound(req) ==
    req.state.kind = "ok" /\ req.cookie = Some(<<"sha256", req.state.token>>)

\* C6: a callback passes state validation only if its session-binding cookie
\* is the SHA-256 hex hash of the correlation token in its state parameter;
\* with the cookie missing or holding anything else the callback is rejected
\* with invalid_request, and no token exchange and no completeAuthorization follow.
C6_SessionCookieBindsState ==
    \A p \in Procs :
        /\ cb[p].passed => SessionBound(cb[p].req)
        /\ (cb[p].pc # "idle" /\ ~SessionBound(cb[p].req)) =>
              /\ cb[p].pc = "done"
              /\ cb[p].error.code = "invalid_request"
              /\ ~cb[p].passed
              /\ ~cb[p].exchanged
              /\ ~cb[p].completed

C6_Witness ==
    \E p \in Procs :
        /\ cb[p].pc = "done"
        /\ cb[p].req.state.kind = "ok"
        /\ cb[p].req.cookie = Some(<<"sha256", (cb[p].req.state.token % MaxStates) + 1>>)
        /\ cb[p].error.description = "State mismatch - possible CSRF attack"

\* C7: once a callback has passed validateOAuthState for a correlation token,
\* every callback that arrives afterwards with a code and the same token, even
\* with the right session cookie, fails with invalid_request "Invalid or
\* expired state" and exchanges no token.
C7_StateIsSingleUse ==
    \A p \in Procs :
        (cb[p].late /\ cb[p].req.code # None) =>
            /\ cb[p].pc = "done"
            /\ cb[p].error = [code |-> "invalid_request",
                              description |-> "Invalid or expired state"]
            /\ ~cb[p].passed
            /\ ~cb[p].exchanged

C7_Witness ==
    \E p \in Procs :
        /\ cb[p].late
        /\ cb[p].req.code # None
        /\ SessionBound(cb[p].req)
        /\ cb[p].pc = "done"

\* C8: under every interleaving of two concurrent callbacks that present the
\* same correlation token and the matching session cookie, at most one passes
\* validateOAuthState, so at most one token exchange and one
\* completeAuthorization happen per Pending Authorization State.
C8_AtMostOneCallbackPasses ==
    \A p, q \in Procs :
        (p # q /\ cb[p].req.state.token = cb[q].req.state.token) =>
            /\ ~(cb[p].passed /\ cb[q].passed)
            /\ ~(cb[p].exchanged /\ cb[q].exchanged)
            /\ ~(cb[p].completed /\ cb[q].completed)

----------------------------------------------------------------------------
(* resolveRefs *)

RECURSIVE RefsIn(_)
\* The references written in a value
RefsIn(node) ==
    IF node.kind = "object" /\ isRef(node) THEN {property(node, "$ref").text}
    ELSE UNION {RefsIn(node.items[i]) : i \in 1..Len(node.items)}

RefTargets(refs, spec) == UNION {RefsIn(walk(spec, refParts(r))) : r \in refs}

RECURSIVE RefClosure(_, _)
\* The references reached from a set of references, the set included
RefClosure(refs, spec) ==
    LET more == refs \cup RefTargets(refs, spec)
    IN IF more = refs THEN refs ELSE RefClosure(more, spec)

\* No reference that the value reaches leads back to itself
AcyclicRefs(node, spec) ==
    \A r \in RefClosure(RefsIn(node), spec) :
        r \notin RefClosure(RefTargets({r}, spec), spec)

RECURSIVE Inlined(_, _)
\* The value with every reference replaced by its resolved target
Inlined(node, spec) ==
    IF node.kind = "object" /\ isRef(node)
    THEN Inlined(walk(spec, refParts(property(node, "$ref").text)), spec)
    ELSE [node EXCEPT !.items = [i \in 1..Len(node.items) |-> Inlined(node.items[i], spec)]]

RECURSIVE HasCircular(_)
HasCircular(node) ==
    \/ node.kind = "object" /\ hasKey(node, "$circular")
    \/ \E i \in 1..Len(node.items) : HasCircular(node.items[i])

ResolveRan == call.fn = "resolveRefs" /\ outcome.pc = "done"

\* C21: for a spec whose reference graph has no cycle, resolveRefs returns
\* the input with every $ref object replaced by its fully resolved target and
\* the output has no $circular marker, however often a reference occurs.
C21_ResolveRefsRoundTrip ==
    (ResolveRan /\ AcyclicRefs(call.obj, call.spec)) =>
        /\ outcome.returned = Inlined(call.obj, call.spec)
        /\ ~HasCircular(outcome.returned)

\* What the code does keep: a reference that occurs once, with targets whose
\* references occur once, is replaced by its resolved target
C21_SingleOccurrence ==
    (ResolveRan /\ call.obj \in {Ref("A"), Ref("B"), Ref("Missing")}
       /\ call.spec = Schemas(<<"A", "B">>, <<StringType, Obj(<<"item">>, <<Ref("A")>>)>>)) =>
        outcome.returned = Inlined(call.obj, call.spec)

----------------------------------------------------------------------------
(* The scope catalog *)

TestEnded(test) == call.fn = test /\ outcome.pc \in {"passed", "failed"}

\* C22: every scope name listed in any scope template is a key of the scope
\* catalog ALL_SCOPES, and the read-only template has no scope name that ends
\* in ':write', ':edit', ':admin' or ':pii'.
C22_TemplatesInCatalog ==
    /\ \A i \in 1..Len(SCOPE_TEMPLATES) :
          SetOf(SCOPE_TEMPLATES[i].scopes) \subseteq SetOf(ALL_SCOPES)
    /\ \A scope \in SetOf(templateOf("read-only").scopes) : ~isWriteScope(scope)
    /\ (TestEnded("templates valid") \/ TestEnded("read-only has no write scopes")) =>
          outcome.pc = "passed"

C22_Witness ==
    /\ TestEnded("read-only has no write scopes")
    /\ outcome.index = Len(DefaultTemplateScopes) + 1
    /\ isWriteScope("dns_records:edit") /\ isWriteScope("teams:pii")
    /\ ~isWriteScope("teams:secure_location") /\ ~isWriteScope("offline_access")

\* C23: the key set of the scope catalog ALL_SCOPES equals the registered
\* scope list: no catalog scope is unregistered and every registered scope
\* is in the catalog.
C23_CatalogIsRegisteredList ==
    (TestEnded("only registered") \/ TestEnded("all registered")) =>
        /\ outcome.pc = "passed"
        /\ SetOf(ALL_SCOPES) = SetOf(REGISTERED_SCOPES)

\* What the code does keep: no catalog scope is unregistered
C23_CatalogWithinRegistered ==
    TestEnded("only registered") => outcome.pc = "passed"

----------------------------------------------------------------------------
(* The callback and the whole authorization attempt *)

TokenOf(p) == cb[p].req.state.token

\* The callback read the entry of its state from the store
FoundEntry(p) ==
    \/ cb[p].passed
    \/ cb[p].error.description \in
          {"Missing session binding - restart authorization",
           "State mismatch - possible CSRF attack", "Invalid stored state data"}

\* C24: a Pending Authorization State is deleted on read: after any callback
\* that found the entry in the store, whether it passed validation or was
\* rejected for a missing or mismatching session cookie or a schema failure,
\* the entry is no longer in the store.
C24_DeletedOnRead ==
    \A p \in Procs :
        (cb[p].pc \notin {"idle", "delete"} /\ FoundEntry(p)) => ~kv[TokenOf(p)].present

\* What the code does keep: the entry is gone after a callback that passed
C24_DeletedOnPass ==
    \A p \in Procs : cb[p].passed => ~kv[TokenOf(p)].present

\* C25: completeAuthorization is invoked only after, in this order, the code
\* parameter was found, the pending state passed validation and was deleted,
\* the code was exchanged with the code verifier stored under that state, and
\* a user identity was resolved; when a step fails it is not invoked and an
\* error response is returned.
C25_CompleteOnlyAfterAllSteps ==
    \A p \in Procs :
        /\ cb[p].passed =>
              /\ Truthy(cb[p].req.code)
              /\ cb[p].stored.present
              /\ SessionBound(cb[p].req)
              /\ cb[p].pc # "delete"
        /\ cb[p].exchanged =>
              /\ cb[p].passed
              /\ ~kv[TokenOf(p)].present
              /\ cb[p].stored.codeVerifier = CodeVerifier(TokenOf(p))
        /\ cb[p].userId # "" => cb[p].exchanged /\ cb[p].error = NoError
        /\ cb[p].completed =>
              /\ cb[p].userId # ""
              /\ cb[p].pc = "done"
              /\ cb[p].grant.userId = cb[p].userId
        /\ (cb[p].pc = "done" /\ ~cb[p].completed) =>
              /\ cb[p].error # NoError
              /\ cb[p].grant = NoGrant
              /\ ~cb[p].clearCookie

C25_Witness ==
    /\ \E p \in Procs : cb[p].completed
    /\ \E p \in Procs :
          /\ cb[p].pc = "done"
          /\ cb[p].exchanged
          /\ cb[p].error = OAuthError("server_error",
                                      "Failed to fetch user information from Cloudflare")

\* The fields of an authorization request that the client supplied
SuppliedAtStart(info) ==
    /\ info.state = ClientState
    /\ info.redirectUri = ClientRedirectUri
    /\ info.responseType = "code"
    /\ info.clientId \in {"c1", "c2"}

\* C26: the client's original state value survives the whole flow: the
\* correlation token replaces the state field only in the copy encoded into
\* the upstream redirect, while the request stored in the Pending
\* Authorization State and later passed to completeAuthorization carries the
\* state, client id, redirect URI and response type the client supplied.
C26_ClientStateSurvives ==
    /\ \A t \in Tokens : kv[t].present => SuppliedAtStart(kv[t].oauthReqInfo)
    /\ (last.route # "none" /\ last.resp.kind = "redirect") =>
          LET sent == last.resp.location[1].state
          IN  /\ sent.state \in Tokens
              /\ kv[sent.state].present =>
                    sent = [kv[sent.state].oauthReqInfo EXCEPT !.state = sent.state]
    /\ \A p \in Procs :
          cb[p].completed =>
              /\ SuppliedAtStart(cb[p].grant.request)
              /\ cb[p].grant.request = cb[p].stored.oauthReqInfo

C26_Witness ==
    /\ last.route = "POST" /\ last.resp.kind = "redirect"
    /\ last.resp.location[1].state.state = 2
    /\ kv[2].oauthReqInfo.state = ClientState
    /\ \E p \in Procs : cb[p].completed /\ cb[p].grant.request.state = ClientState

\* C27: in getUserAndAccounts a failure of one lookup does not short-circuit
\* the other: whenever the user lookup fails (network error, non-JSON body,
\* success:false) while the accounts lookup succeeds with at least one
\* account, the result is {user: null, accounts}; it throws only when no user
\* and no account could be resolved.
C27_LookupsDoNotShortCircuit ==
    (epc = "done" /\ isDirectApiToken(request)) =>
        LET r == getUserAndAccounts(upstream)
            userFailed == upstream.user.kind \in
                             {"network_error", "non_json", "success_false"}
            accountsOk == upstream.accounts.kind = "ok"
                          /\ Len(upstream.accounts.result) > 0
        IN  /\ (userFailed /\ accountsOk) =>
                  /\ r = Returned(None, upstream.accounts.result)
                  /\ response.error \notin {"fetch failed", "Unexpected token"}
            /\ r.threw => (upstream.user.kind # "ok" /\ ~accountsOk)

\* What the code does keep: a user lookup that answers success:false
C27_UserSuccessFalse ==
    (epc = "done" /\ upstream.user.kind = "success_false"
       /\ upstream.accounts.kind = "ok" /\ Len(upstream.accounts.result) > 0) =>
        getUserAndAccounts(upstream) = Returned(None, upstream.accounts.result)

\* A redirect to the upstream authorization endpoint
Redirected == last.route # "none" /\ last.resp.kind = "redirect"

\* C28: the required scopes are always included: every scope list sent in an
\* upstream authorization redirect, from AUTO_REDIRECT or from a consent
\* submission with any checkbox selection, contains user:read,
\* offline_access and account:read.
C28_RequiredScopesIncluded ==
    Redirected => SetOf(REQUIRED_SCOPES) \subseteq SetOf(last.resp.location[1].scopes)

\* What the code does keep: the scopes of an AUTO_REDIRECT include them
C28_AutoRedirectIncludesRequired ==
    (Redirected /\ last.route = "GET") =>
        SetOf(REQUIRED_SCOPES) \subseteq SetOf(last.resp.location[1].scopes)

\* C29: for every authorization attempt that reaches COMPLETE, the scope list
\* passed to completeAuthorization is the scope list that was sent in the
\* upstream redirect of the same attempt, the one stored with its correlation
\* token.  Step by step: the redirect that stores a state sends the stored
\* scopes, a stored state does not change, a callback takes the stored state
\* of its token, and the grant has the scopes of the state the callback took.
C29_GrantedScopesAreSentScopes ==
    [][/\ \A t \in Tokens :
             /\ (~kv[t].present /\ kv'[t].present) =>
                   /\ last'.resp.kind = "redirect"
                   /\ last'.resp.location[1].state.state = t
                   /\ last'.resp.location[1].scopes = kv'[t].oauthReqInfo.scope
             /\ (kv[t].present /\ kv'[t].present) => kv'[t] = kv[t]
       /\ \A p \in Procs :
             /\ (cb[p].pc = "idle" /\ cb'[p].pc = "delete") =>
                   cb'[p].stored = kv[cb'[p].req.state.token]
             /\ cb[p].pc \notin {"idle", "done"} => cb'[p].stored = cb[p].stored
             /\ (~cb[p].completed /\ cb'[p].completed) =>
                   /\ cb'[p].grant.scope = cb[p].stored.oauthReqInfo.scope
                   /\ cb[p].passed]_vars

C29_Witness ==
    /\ \E p \in Procs : cb[p].completed /\ cb[p].grant.scope = <<"workers:read">>
    /\ \E p \in Procs : cb[p].completed /\ cb[p].grant.scope = DefaultTemplateScopes

\* C30: an honest authorization attempt eventually completes: once the
\* browser is back at /oauth/callback with the issued state and session
\* cookie before the stored state expired, and the token exchange and the
\* identity lookup succeed, the flow reaches COMPLETE, exactly once for its
\* correlation token; the response redirects and clears the session-binding
\* cookie, and the Pending Authorization State is gone from the store.
C30_HonestAttemptCompletes ==
    /\ \A p \in Procs :
          (cb[p].pc = "delete") ~>
              (/\ cb[p].completed
               /\ cb[p].pc = "done"
               /\ cb[p].error = NoError
               /\ cb[p].clearCookie
               /\ ~kv[TokenOf(p)].present)
    /\ [](\A t \in Tokens :
             Cardinality({p \in Procs : cb[p].completed /\ TokenOf(p) = t}) <= 1)

C30_Witness ==
    \E p \in Procs :
        /\ cb[p].completed
        /\ cb[p].clearCookie
        /\ SessionBound(cb[p].req)
        /\ ~kv[TokenOf(p)].present
        /\ jar.session = cb[p].req.cookie

====
